---- MODULE Spec2Model ----
(***************************************************************************)
(* Ledger engine of igtaccounting (backend/app.py, backend/database.py,    *)
(* backend/database_cosmos.py): transactions with their lines over the     *)
(* two persistence backends selected by USE_COSMOS_DB.                     *)
(*                                                                         *)
(* Amounts are counted in cents: the source compares float sums against    *)
(* 0.01, the model compares integer cents against Tolerance = 1.           *)
(* An account reference on a line is an integer: a positive account id,    *)
(* NullRef for a line without chart_of_account_id, or a negative number    *)
(* standing for a document id (uuid) of the document store.                *)
(***************************************************************************)
EXTENDS Integers, Sequences, FiniteSets, TLC

VARIABLES
    USE_COSMOS_DB,       \* app.py:16, fixed for a run of the server
    chart_of_accounts,   \* rows / documents of chart_of_accounts
    transactions,        \* rows of transactions with their transaction_lines, or documents
    sqlite_sequence,     \* AUTOINCREMENT counter of the transactions table
    uuid_seq,            \* number of document ids (uuid4) drawn so far
    account_sequence,    \* AUTOINCREMENT counter of the chart_of_accounts table
    sessions,            \* requests in flight: per writer, where its handler stands
    last                 \* the last completed call: [op, status]

vars == <<USE_COSMOS_DB, chart_of_accounts, transactions, sqlite_sequence, uuid_seq, account_sequence,
          sessions, last>>

----------------------------------------------------------------------------
\* Program constants and the input alphabet

Tolerance == 1

MinLines == 2

MaxTxns == 1

MaxRows == 1

MaxAccountId == 3

MaxUuids == 3

MaxNewAccounts == 1

Businesses == {1, 2}

NullRef == 0

\* parent_account_id of an account without parent (None), apart from every id
NoParent == -1

AccountRefs == {1, 2}

LineRefs == AccountRefs \cup {NullRef}

\* A request line posts one cent on one side (the one-sided convention).
LineInputs ==
    {[chart_of_account_id |-> a, debit_amount |-> d, credit_amount |-> 1 - d] :
        a \in LineRefs, d \in {0, 1}}

LineLists == UNION {[1..n -> LineInputs] : n \in 0..MinLines}

TxnIds == 1..MaxTxns

----------------------------------------------------------------------------
\* Helpers

Abs(x) == IF x < 0 THEN -x ELSE x

\* Variant of total_debits that looks at the first line only.
first_debit_only(lines) == IF lines = <<>> THEN 0 ELSE Head(lines).debit_amount

RECURSIVE SumDebits(_)
SumDebits(lines) ==
    IF lines = <<>> THEN 0
    ELSE Head(lines).debit_amount + SumDebits(Tail(lines))

RECURSIVE SumCredits(_)
SumCredits(lines) ==
    IF lines = <<>> THEN 0
    ELSE Head(lines).credit_amount + SumCredits(Tail(lines))

MaxOf(S) == IF S = {} THEN 0 ELSE CHOOSE m \in S : \A x \in S : x <= m

----------------------------------------------------------------------------
\* Queries

get_chart_of_account(accts, account_id, business_id) ==
    {a \in accts : a.id = account_id /\ a.business_id = business_id}

\* Variant of get_transaction that forgets the ownership filter.
get_transaction_any_business(txns, transaction_id, business_id) ==
    {t \in txns : t.id = transaction_id}

get_transaction(txns, transaction_id, business_id) ==
    {t \in txns : t.id = transaction_id /\ t.business_id = business_id}

\* SELECT VALUE MAX(c.transaction_id) ... WHERE c.business_id = @business_id, plus one
cosmos_next_id_restarted(txns, business_id) == 1

cosmos_next_id(txns, business_id) ==
    MaxOf({t.id : t \in {u \in txns : u.business_id = business_id}}) + 1

----------------------------------------------------------------------------
\* Validation shared by create_transaction and update_transaction

\* Variants of the two checks: the count off by one, the balance not checked.
too_few_lines_off_by_one(lines) == Len(lines) < MinLines - 1

unbalanced_unchecked(lines) == FALSE

too_few_lines(lines) == Len(lines) < MinLines

unbalanced(lines) == Abs(SumDebits(lines) - SumCredits(lines)) > Tolerance

\* Cosmos branch: every line needs an id that resolves in the business.
cosmos_line_error(accts, business_id, lines) ==
    IF \E i \in 1..Len(lines) :
          /\ \A j \in 1..(i - 1) :
                /\ lines[j].chart_of_account_id # NullRef
                /\ get_chart_of_account(accts, lines[j].chart_of_account_id, business_id) # {}
          /\ lines[i].chart_of_account_id = NullRef
    THEN "MissingAccountId"
    ELSE IF \E i \in 1..Len(lines) :
               get_chart_of_account(accts, lines[i].chart_of_account_id, business_id) = {}
         THEN "InvalidAccount"
         ELSE "ok"

\* SQLite branch: INSERT of the lines one by one inside the open transaction.
\* chart_of_account_id is NOT NULL, so a null reference raises at that line;
\* a storage fault raises at the last INSERT.
RECURSIVE sqlite_insert_lines(_, _, _)
sqlite_insert_lines(done, rest, fault) ==
    IF rest = <<>> THEN [ok |-> TRUE, lines |-> done]
    ELSE IF Head(rest).chart_of_account_id = NullRef \/ (fault /\ Len(rest) = 1)
         THEN [ok |-> FALSE, lines |-> done]
         ELSE sqlite_insert_lines(Append(done, Head(rest)), Tail(rest), fault)

\* Variant of the except branch that keeps what was written before the fault.
rollback_skipped(before, partial) == partial

\* conn.rollback() in the except branch: the store as it was before the call.
rollback(before, partial) == before

----------------------------------------------------------------------------
\* create_transaction

Response(status, txns, seq) ==
    [status |-> status, transactions |-> txns, sqlite_sequence |-> seq]

cosmos_create_transaction(accts, txns, seq, business_id, lines, fault) ==
    LET next_id == cosmos_next_id(txns, business_id)
        err == cosmos_line_error(accts, business_id, lines)
        doc == [business_id |-> business_id, id |-> next_id,
                amount |-> SumDebits(lines), lines |-> lines]
    IN  IF err # "ok" THEN Response(err, txns, seq)
        ELSE IF fault THEN Response("StorageError", txns, seq)
        ELSE Response("ok", txns \cup {doc}, seq)

sqlite_create_transaction(accts, txns, seq, business_id, lines, fault) ==
    LET transaction_id == seq + 1
        ins == sqlite_insert_lines(<<>>, lines, fault)
        row == [business_id |-> business_id, id |-> transaction_id,
                amount |-> SumDebits(lines), lines |-> ins.lines]
        partial == Response("StorageError", txns \cup {row}, transaction_id)
    IN  IF ~ins.ok
        THEN rollback(Response("StorageError", txns, seq), partial)
        ELSE Response("ok", txns \cup {row}, transaction_id)

create_transaction(cosmos, accts, txns, seq, business_id, lines, fault) ==
    IF too_few_lines(lines) THEN Response("TooFewLines", txns, seq)
    ELSE IF unbalanced(lines) THEN Response("UnbalancedEntry", txns, seq)
    ELSE IF cosmos
         THEN cosmos_create_transaction(accts, txns, seq, business_id, lines, fault)
         ELSE sqlite_create_transaction(accts, txns, seq, business_id, lines, fault)

----------------------------------------------------------------------------
\* update_transaction: full replacement of header amount and lines

\* update_item: reads the stored document of that id for its _etag, then
\* replace_item without a match condition; raises when the document is gone.
update_item(txns, doc) ==
    LET existing == {t \in txns : t.id = doc.id /\ t.business_id = doc.business_id}
    IN  IF existing = {} THEN [ok |-> FALSE, transactions |-> txns]
        ELSE [ok |-> TRUE, transactions |-> (txns \ existing) \cup {doc}]

\* What the Cosmos branch answers before it writes.
cosmos_update_checks(accts, txns, business_id, transaction_id, lines) ==
    IF get_transaction(txns, transaction_id, business_id) = {} THEN "NotFound"
    ELSE cosmos_line_error(accts, business_id, lines)

cosmos_update_transaction(accts, txns, seq, business_id, transaction_id, lines, fault) ==
    LET err == cosmos_update_checks(accts, txns, business_id, transaction_id, lines)
        doc == [business_id |-> business_id, id |-> transaction_id,
                amount |-> SumDebits(lines), lines |-> lines]
        written == update_item(txns, doc)
    IN  IF err # "ok" THEN Response(err, txns, seq)
        ELSE IF fault \/ ~written.ok THEN Response("StorageError", txns, seq)
        ELSE Response("ok", written.transactions, seq)

sqlite_update_transaction(accts, txns, seq, business_id, transaction_id, lines, fault) ==
    LET found == get_transaction(txns, transaction_id, business_id)
        ins == sqlite_insert_lines(<<>>, lines, fault)
        row == [business_id |-> business_id, id |-> transaction_id,
                amount |-> SumDebits(lines), lines |-> ins.lines]
        partial == Response("StorageError", (txns \ found) \cup {row}, seq)
    IN  IF found = {} THEN Response("NotFound", txns, seq)
        ELSE IF ~ins.ok
        THEN rollback(Response("StorageError", txns, seq), partial)
        ELSE Response("ok", (txns \ found) \cup {row}, seq)

update_transaction(cosmos, accts, txns, seq, business_id, transaction_id, lines, fault) ==
    IF too_few_lines(lines) THEN Response("TooFewLines", txns, seq)
    ELSE IF unbalanced(lines) THEN Response("UnbalancedEntry", txns, seq)
    ELSE IF cosmos
         THEN cosmos_update_transaction(accts, txns, seq, business_id, transaction_id,
                                        lines, fault)
         ELSE sqlite_update_transaction(accts, txns, seq, business_id, transaction_id,
                                        lines, fault)

----------------------------------------------------------------------------
\* delete_transaction

\* Cosmos deletes the document; SQLite deletes the lines, then the header, and
\* commits. A fault between the two statements ends in the except branch.
delete_transaction(cosmos, txns, seq, business_id, transaction_id, fault) ==
    LET found == get_transaction(txns, transaction_id, business_id)
        partial == Response("StorageError",
                            (txns \ found) \cup {[t EXCEPT !.lines = <<>>] : t \in found},
                            seq)
    IN  IF found = {} THEN Response("NotFound", txns, seq)
        ELSE IF fault /\ cosmos THEN Response("StorageError", txns, seq)
        ELSE IF fault THEN rollback(Response("StorageError", txns, seq), partial)
        ELSE Response("ok", txns \ found, seq)

----------------------------------------------------------------------------
\* Reading a transaction back (get_transactions and the handlers' responses)

\* SQLite: the lines come from a JOIN with chart_of_accounts on the account id.
sqlite_read_lines(accts, lines) ==
    SelectSeq(lines, LAMBDA l : \E a \in accts : a.id = l.chart_of_account_id)

\* Cosmos: the embedded lines of the document.
cosmos_read_lines(accts, lines) == lines

read_lines(cosmos, accts, lines) ==
    IF cosmos THEN cosmos_read_lines(accts, lines) ELSE sqlite_read_lines(accts, lines)

----------------------------------------------------------------------------
\* delete_chart_of_account: the account must exist in the business and have no
\* child account; lines that reference it are not looked at.

has_children_unchecked(cosmos, accts, business_id, account_id) == FALSE

has_children(cosmos, accts, business_id, account_id) ==
    \E c \in accts :
        /\ c.parent_account_id = account_id
        /\ (cosmos => c.business_id = business_id)

delete_chart_of_account(cosmos, accts, business_id, account_id) ==
    LET found == get_chart_of_account(accts, account_id, business_id)
    IN  IF found = {} THEN [status |-> "NotFound", chart_of_accounts |-> accts]
        ELSE IF has_children(cosmos, accts, business_id, account_id)
        THEN [status |-> "HasChildren", chart_of_accounts |-> accts]
        ELSE [status |-> "ok",
              chart_of_accounts |-> accts \ {CHOOSE a \in found : TRUE}]

----------------------------------------------------------------------------
\* bulk_update_transactions

LineFilters == {"ALL", "DEBIT_ONLY", "CREDIT_ONLY", "FIRST_LINE"}

\* The lines the handler iterates over, as positions in the stored list:
\* Cosmos reads the embedded lines, SQLite joins them with chart_of_accounts.
bulk_lines(cosmos, accts, lines) ==
    IF cosmos THEN 1..Len(lines)
    ELSE {i \in 1..Len(lines) : \E a \in accts : a.id = lines[i].chart_of_account_id}

matches_normal_side(line, category, normal_balance) ==
    IF category \in {"REVENUE", "EXPENSE"}
    THEN \/ category = "REVENUE" /\ line.credit_amount > 0
         \/ category = "EXPENSE" /\ line.debit_amount > 0
    ELSE \/ normal_balance = "DEBIT" /\ line.debit_amount > 0
         \/ normal_balance = "CREDIT" /\ line.credit_amount > 0

lines_to_update(lines, seen, target, category, normal_balance, line_filter) ==
    CASE line_filter = "ALL" ->
            {i \in seen :
                /\ ~\E j \in seen \ {i} : lines[j].chart_of_account_id = target
                /\ matches_normal_side(lines[i], category, normal_balance)}
      [] line_filter = "DEBIT_ONLY" -> {i \in seen : lines[i].debit_amount > 0}
      [] line_filter = "CREDIT_ONLY" -> {i \in seen : lines[i].credit_amount > 0}
      [] line_filter = "FIRST_LINE" -> {i \in seen : \A j \in seen : i <= j}
      [] OTHER -> {}

\* The guard before the write: a line that is not selected already has the target.
has_duplicate(lines, seen, selected, target) ==
    /\ selected # {}
    /\ \E j \in seen \ selected : lines[j].chart_of_account_id = target

reassign(lines, selected, target) ==
    [i \in 1..Len(lines) |->
        IF i \in selected
        THEN [lines[i] EXCEPT !.chart_of_account_id = target]
        ELSE lines[i]]

\* One transaction of the batch: "updated", "refused" (reported in errors) or
\* "untouched" (fewer than two lines, or no line selected).
bulk_one(cosmos, accts, t, target_account, line_filter) ==
    LET seen == bulk_lines(cosmos, accts, t.lines)
        selected == lines_to_update(t.lines, seen, target_account.id,
                                    target_account.category,
                                    target_account.normal_balance, line_filter)
    IN  IF Cardinality(seen) < MinLines THEN [outcome |-> "untouched", txn |-> t]
        ELSE IF has_duplicate(t.lines, seen, selected, target_account.id)
        THEN [outcome |-> "refused", txn |-> t]
        ELSE IF selected = {} THEN [outcome |-> "untouched", txn |-> t]
        ELSE [outcome |-> "updated",
              txn |-> [t EXCEPT !.lines = reassign(t.lines, selected, target_account.id)]]

BulkResponse(status, txns, updated, errors) ==
    [status |-> status, transactions |-> txns, updated |-> updated, errors |-> errors]

bulk_update_transactions(cosmos, accts, txns, business_id, transaction_ids, chart_of_account_id, line_filter) ==
    LET target == get_chart_of_account(accts, chart_of_account_id, business_id)
        target_account == CHOOSE a \in target : TRUE
        mine == {t \in txns : t.business_id = business_id /\ t.id \in transaction_ids}
        missing == {i \in transaction_ids : get_transaction(txns, i, business_id) = {}}
        done == {bulk_one(cosmos, accts, t, target_account, line_filter) : t \in mine}
        updated == {r.txn.id : r \in {d \in done : d.outcome = "updated"}}
        refused == {r.txn.id : r \in {d \in done : d.outcome = "refused"}}
    IN  IF transaction_ids = {} THEN BulkResponse("NoTransactionIds", txns, {}, {})
        ELSE IF chart_of_account_id = NullRef
        THEN BulkResponse("MissingAccountId", txns, {}, {})
        ELSE IF target = {} THEN BulkResponse("NotFound", txns, {}, {})
        ELSE IF ~cosmos /\ missing # {}
        THEN BulkResponse("SomeTransactionsNotFound", txns, {}, {})
        ELSE BulkResponse("ok", (txns \ mine) \cup {r.txn : r \in done},
                          updated, refused \cup missing)

----------------------------------------------------------------------------
\* import_transactions_csv. A parsed row is its direction ("DEBIT": money
\* out, "CREDIT": money in) or "SKIP" for a row that is skipped or in error;
\* every posted row carries RowAmount.

RowAmount == 1

Directions == {"DEBIT", "CREDIT", "SKIP"}

BankAccounts == {[business_id |-> 1, id |-> 1, account_code |-> "1000"]}

by_code(accts, business_id, account_code) ==
    {a \in accts : a.business_id = business_id /\ a.account_code = account_code}

next_account_id(accts, business_id) ==
    MaxOf({a.id : a \in {c \in accts : c.business_id = business_id}}) + 1

new_account(accts, business_id, uuid, account_code, category, normal_balance) ==
    [business_id |-> business_id, id |-> next_account_id(accts, business_id),
     doc |-> -uuid, account_code |-> account_code, category |-> category,
     normal_balance |-> normal_balance, parent_account_id |-> NoParent]

\* Find the account by code, else create it. The reference later written on
\* the lines is account.get('id') or account.get('account_id'): the integer
\* account id for a record found by get_chart_of_accounts, the document id
\* for a record returned by create_item.
get_or_create(accts, uuids, business_id, account_code, category, normal_balance) ==
    LET found == by_code(accts, business_id, account_code)
        created == new_account(accts, business_id, uuids + 1, account_code,
                               category, normal_balance)
    IN  IF found # {}
        THEN [chart_of_accounts |-> accts, uuid_seq |-> uuids,
              ref |-> (CHOOSE a \in found : TRUE).id]
        ELSE [chart_of_accounts |-> accts \cup {created}, uuid_seq |-> uuids + 1,
              ref |-> created.doc]

import_line(ref, debit, credit) ==
    [chart_of_account_id |-> ref, debit_amount |-> debit, credit_amount |-> credit]

import_lines(direction, bank_ref, expense_ref, revenue_ref) ==
    IF direction = "DEBIT"
    THEN <<import_line(expense_ref, RowAmount, 0), import_line(bank_ref, 0, RowAmount)>>
    ELSE <<import_line(bank_ref, RowAmount, 0), import_line(revenue_ref, 0, RowAmount)>>

\* The check that the two lines of a row are on different accounts.
same_account(lines) == lines[1].chart_of_account_id = lines[2].chart_of_account_id

\* A row is skipped, with an entry in errors, when it cannot be parsed (SKIP),
\* when its lines are on one account, or when create_item raises because a
\* document of that transaction id is already stored; next_transaction_id
\* advances only after a successful create_item.
RECURSIVE import_rows(_, _, _, _, _, _, _)
import_rows(txns, business_id, next_transaction_id, rows, bank_ref, expense_ref, revenue_ref) ==
    IF rows = <<>> THEN [transactions |-> txns, imported |-> 0, skipped |-> 0]
    ELSE LET lines == import_lines(Head(rows), bank_ref, expense_ref, revenue_ref)
             doc == [business_id |-> business_id, id |-> next_transaction_id,
                     amount |-> RowAmount, lines |-> lines]
             conflict == \E t \in txns :
                            t.business_id = business_id /\ t.id = next_transaction_id
             skip == Head(rows) = "SKIP" \/ same_account(lines) \/ conflict
             rest == import_rows(IF skip THEN txns ELSE txns \cup {doc}, business_id,
                                 IF skip THEN next_transaction_id
                                 ELSE next_transaction_id + 1,
                                 Tail(rows), bank_ref, expense_ref, revenue_ref)
         IN  [transactions |-> rest.transactions,
              imported |-> rest.imported + (IF skip THEN 0 ELSE 1),
              skipped |-> rest.skipped + (IF skip THEN 1 ELSE 0)]

ErrorsShown == 10

\* errors[:10]
errors_shown(errors) == IF errors <= ErrorsShown THEN errors ELSE ErrorsShown

ImportResponse(status, accts, txns, uuids, imported, skipped) ==
    [status |-> status, chart_of_accounts |-> accts, transactions |-> txns,
     uuid_seq |-> uuids, imported |-> imported, skipped |-> skipped,
     errors |-> errors_shown(skipped)]

cosmos_import_transactions_csv(accts, txns, uuids, business_id, bank_account_id, rows) ==
    LET bank_account == {b \in BankAccounts :
                            b.business_id = business_id /\ b.id = bank_account_id}
        bank == get_or_create(accts, uuids, business_id,
                              (CHOOSE b \in bank_account : TRUE).account_code,
                              "ASSET", "DEBIT")
        expense == get_or_create(bank.chart_of_accounts, bank.uuid_seq, business_id,
                                 "UNCATEGORIZED_EXPENSE", "EXPENSE", "DEBIT")
        revenue == get_or_create(expense.chart_of_accounts, expense.uuid_seq,
                                 business_id, "UNCATEGORIZED_REVENUE", "REVENUE",
                                 "CREDIT")
        posted == import_rows(txns, business_id, cosmos_next_id(txns, business_id),
                              rows, bank.ref, expense.ref, revenue.ref)
    IN  IF bank_account = {} THEN ImportResponse("NotFound", accts, txns, uuids, 0, 0)
        ELSE ImportResponse("ok", revenue.chart_of_accounts, posted.transactions,
                            revenue.uuid_seq, posted.imported, posted.skipped)

\* With USE_COSMOS_DB off the handler leaves its try block without a return:
\* the SQLite statements sit after the return of the outer except branch.
import_transactions_csv(cosmos, accts, txns, uuids, business_id, bank_account_id, rows) ==
    IF cosmos
    THEN cosmos_import_transactions_csv(accts, txns, uuids, business_id,
                                        bank_account_id, rows)
    ELSE ImportResponse("ServerError", accts, txns, uuids, 0, 0)

----------------------------------------------------------------------------
\* create_chart_of_account and update_chart_of_account

\* A key the request body does not carry.
AbsentCode == "absent"

AbsentParent == -2

\* `if parent_account_id:` -- None and 0 both skip the parent checks.
truthy(parent_account_id) == parent_account_id # NoParent /\ parent_account_id # 0

AccountResponse(status, accts, uuids, aseq) ==
    [status |-> status, chart_of_accounts |-> accts, uuid_seq |-> uuids,
     account_sequence |-> aseq]

\* The parent checks of the Cosmos branch: the parent is looked up among the
\* accounts of the business.
cosmos_parent_error(accts, business_id, parent_account_id) ==
    IF ~truthy(parent_account_id) THEN "ok"
    ELSE IF get_chart_of_account(accts, parent_account_id, business_id) = {}
    THEN "ParentNotFound"
    ELSE "ok"

\* The parent checks of the SQLite branch: the parent is looked up by id
\* alone, then its business is compared.
sqlite_parent_error(accts, business_id, parent_account_id) ==
    LET parent == {a \in accts : a.id = parent_account_id}
    IN  IF ~truthy(parent_account_id) THEN "ok"
        ELSE IF parent = {} THEN "ParentNotFound"
        ELSE IF \E a \in parent : a.business_id # business_id THEN "ParentOtherBusiness"
        ELSE "ok"

cosmos_create_chart_of_account(accts, uuids, aseq, business_id, account_code, account_type, parent_account_id) ==
    LET err == cosmos_parent_error(accts, business_id, parent_account_id)
        created == [new_account(accts, business_id, uuids + 1, account_code,
                                account_type.category, account_type.normal_balance)
                       EXCEPT !.parent_account_id = parent_account_id]
    IN  IF err # "ok" THEN AccountResponse(err, accts, uuids, aseq)
        ELSE IF by_code(accts, business_id, account_code) # {}
        THEN AccountResponse("DuplicateCode", accts, uuids, aseq)
        ELSE AccountResponse("ok", accts \cup {created}, uuids + 1, aseq)

\* The INSERT fails on UNIQUE(business_id, account_code); the id is the next
\* value of the AUTOINCREMENT counter.
sqlite_create_chart_of_account(accts, uuids, aseq, business_id, account_code, account_type, parent_account_id) ==
    LET err == sqlite_parent_error(accts, business_id, parent_account_id)
        created == [business_id |-> business_id, id |-> aseq + 1,
                    doc |-> -(100 + aseq + 1), account_code |-> account_code,
                    category |-> account_type.category,
                    normal_balance |-> account_type.normal_balance,
                    parent_account_id |-> parent_account_id]
    IN  IF err # "ok" THEN AccountResponse(err, accts, uuids, aseq)
        ELSE IF by_code(accts, business_id, account_code) # {}
        THEN AccountResponse("DuplicateCode", accts, uuids, aseq)
        ELSE AccountResponse("ok", accts \cup {created}, uuids, aseq + 1)

create_chart_of_account(cosmos, accts, uuids, aseq, business_id, account_code, account_type, parent_account_id) ==
    IF account_code = "" THEN AccountResponse("MissingFields", accts, uuids, aseq)
    ELSE IF cosmos
    THEN cosmos_create_chart_of_account(accts, uuids, aseq, business_id, account_code,
                                        account_type, parent_account_id)
    ELSE sqlite_create_chart_of_account(accts, uuids, aseq, business_id, account_code,
                                        account_type, parent_account_id)

\* The account with the fields of the request body written over it.
with_fields(account, data) ==
    [account EXCEPT
        !.account_code = IF data.account_code = AbsentCode THEN @ ELSE data.account_code,
        !.parent_account_id = IF data.parent_account_id = AbsentParent THEN @
                              ELSE data.parent_account_id]

code_taken_unchecked(accts, business_id, account_id, account_code) == FALSE

\* Another account of the business already carries the code.
code_taken(accts, business_id, account_id, account_code) ==
    \E a \in by_code(accts, business_id, account_code) : a.id # account_id

update_parent_error(cosmos, accts, business_id, account_id, data) ==
    LET err == IF cosmos
               THEN cosmos_parent_error(accts, business_id, data.parent_account_id)
               ELSE sqlite_parent_error(accts, business_id, data.parent_account_id)
    IN  IF data.parent_account_id = AbsentParent THEN "ok"
        ELSE IF err # "ok" THEN err
        ELSE IF truthy(data.parent_account_id) /\ data.parent_account_id = account_id
        THEN "SelfParent"
        ELSE "ok"

update_chart_of_account(cosmos, accts, business_id, account_id, data) ==
    LET found == get_chart_of_account(accts, account_id, business_id)
        account == CHOOSE a \in found : TRUE
        err == update_parent_error(cosmos, accts, business_id, account_id, data)
        no_fields == data.account_code = AbsentCode /\ data.parent_account_id = AbsentParent
        unchanged(status) == [status |-> status, chart_of_accounts |-> accts]
    IN  IF found = {} THEN unchanged("NotFound")
        ELSE IF err # "ok" THEN unchanged(err)
        ELSE IF ~cosmos /\ no_fields THEN unchanged("NoFields")
        ELSE IF /\ data.account_code # AbsentCode
                /\ (cosmos => data.account_code # account.account_code)
                /\ code_taken(accts, business_id, account_id, data.account_code)
        THEN unchanged("DuplicateCode")
        ELSE [status |-> "ok",
              chart_of_accounts |-> (accts \ {account}) \cup {with_fields(account, data)}]

----------------------------------------------------------------------------
\* Initial state: the chart of business 1; business 2 has no account.

InitialAccounts ==
    {[business_id |-> 1, id |-> 1, doc |-> -101, account_code |-> "5000",
      category |-> "EXPENSE", normal_balance |-> "DEBIT", parent_account_id |-> NoParent],
     [business_id |-> 1, id |-> 2, doc |-> -102, account_code |-> "4000",
      category |-> "REVENUE", normal_balance |-> "CREDIT", parent_account_id |-> NoParent]}

Writers == {"w1", "w2"}

Idle == [pc |-> "idle"]

InitWith(accts) ==
    /\ USE_COSMOS_DB \in BOOLEAN
    /\ chart_of_accounts = accts
    /\ transactions = {}
    /\ sqlite_sequence = 0
    /\ uuid_seq = 0
    /\ account_sequence = MaxOf({a.id : a \in accts})
    /\ sessions = [w \in Writers |-> Idle]
    /\ last = [op |-> "none", status |-> "ok"]

Init == InitWith(InitialAccounts)

----------------------------------------------------------------------------
\* One action per handler: a whole request, served alone

CreateTransactionOver(Lists) ==
    \E business_id \in Businesses, lines \in Lists, fault \in BOOLEAN :
        LET r == create_transaction(USE_COSMOS_DB, chart_of_accounts, transactions,
                                    sqlite_sequence, business_id, lines, fault)
        IN  /\ r.status = "ok" =>
                    (IF USE_COSMOS_DB THEN cosmos_next_id(transactions, business_id)
                                      ELSE sqlite_sequence + 1) <= MaxTxns
            /\ transactions' = r.transactions
            /\ sqlite_sequence' = r.sqlite_sequence
            /\ last' = [op |-> "create_transaction", status |-> r.status]
            /\ UNCHANGED <<USE_COSMOS_DB, account_sequence, chart_of_accounts, uuid_seq, sessions>>

CreateTransaction == CreateTransactionOver(LineLists)

UpdateTransaction ==
    \E business_id \in Businesses, transaction_id \in TxnIds,
       lines \in LineLists, fault \in BOOLEAN :
        LET r == update_transaction(USE_COSMOS_DB, chart_of_accounts, transactions,
                                    sqlite_sequence, business_id, transaction_id,
                                    lines, fault)
        IN  /\ transactions' = r.transactions
            /\ sqlite_sequence' = r.sqlite_sequence
            /\ last' = [op |-> "update_transaction", status |-> r.status]
            /\ UNCHANGED <<USE_COSMOS_DB, account_sequence, chart_of_accounts, uuid_seq, sessions>>

DeleteTransaction ==
    \E business_id \in Businesses, transaction_id \in TxnIds, fault \in BOOLEAN :
        LET r == delete_transaction(USE_COSMOS_DB, transactions, sqlite_sequence,
                                    business_id, transaction_id, fault)
        IN  /\ transactions' = r.transactions
            /\ sqlite_sequence' = r.sqlite_sequence
            /\ last' = [op |-> "delete_transaction", status |-> r.status,
                        business_id |-> business_id, transaction_id |-> transaction_id]
            /\ UNCHANGED <<USE_COSMOS_DB, account_sequence, chart_of_accounts, uuid_seq, sessions>>

DeleteChartOfAccountOver(Ids) ==
    \E business_id \in Businesses, account_id \in Ids :
        LET r == delete_chart_of_account(USE_COSMOS_DB, chart_of_accounts,
                                         business_id, account_id)
        IN  /\ chart_of_accounts' = r.chart_of_accounts
            /\ last' = [op |-> "delete_chart_of_account", status |-> r.status]
            /\ UNCHANGED <<USE_COSMOS_DB, account_sequence, transactions, sqlite_sequence, uuid_seq,
                           sessions>>

DeleteChartOfAccount == DeleteChartOfAccountOver(AccountRefs)

BulkUpdateOver(Targets) ==
    \E business_id \in Businesses, transaction_ids \in SUBSET TxnIds,
       chart_of_account_id \in Targets, line_filter \in LineFilters :
        LET r == bulk_update_transactions(USE_COSMOS_DB, chart_of_accounts,
                                          transactions, business_id, transaction_ids,
                                          chart_of_account_id, line_filter)
        IN  /\ transactions' = r.transactions
            /\ last' = [op |-> "bulk_update_transactions", status |-> r.status]
            /\ UNCHANGED <<USE_COSMOS_DB, account_sequence, chart_of_accounts, sqlite_sequence,
                           uuid_seq, sessions>>

BulkUpdateTransactions == BulkUpdateOver(LineRefs)

ImportRows == UNION {[1..n -> Directions] : n \in 0..MaxRows}

ImportTransactionsCsv ==
    \E business_id \in Businesses, rows \in ImportRows :
        LET r == import_transactions_csv(USE_COSMOS_DB, chart_of_accounts,
                                         transactions, uuid_seq, business_id, 1, rows)
        IN  /\ cosmos_next_id(transactions, business_id) + r.imported - 1 <= MaxTxns
            /\ chart_of_accounts' = r.chart_of_accounts
            /\ transactions' = r.transactions
            /\ uuid_seq' = r.uuid_seq
            /\ last' = [op |-> "import_transactions_csv", status |-> r.status]
            /\ UNCHANGED <<USE_COSMOS_DB, account_sequence, sqlite_sequence, sessions>>

\* The ledger: every handler that writes transactions.
Next ==
    \/ CreateTransaction
    \/ UpdateTransaction
    \/ DeleteTransaction
    \/ BulkUpdateTransactions
    \/ ImportTransactionsCsv

Spec == Init /\ [][Next]_vars

\* The ledger next to the chart: transactions while accounts are deleted.
NextChart ==
    \/ CreateTransaction
    \/ UpdateTransaction
    \/ DeleteTransaction
    \/ DeleteChartOfAccount

SpecChart == Init /\ [][NextChart]_vars

----------------------------------------------------------------------------
\* Bulk reassignment over split entries: a wider chart, three-line requests

WideAccounts ==
    InitialAccounts \cup
    {[business_id |-> 1, id |-> 3, doc |-> -103, account_code |-> "1500",
      category |-> "ASSET", normal_balance |-> "DEBIT", parent_account_id |-> NoParent],
     [business_id |-> 1, id |-> 4, doc |-> -104, account_code |-> "2000",
      category |-> "LIABILITY", normal_balance |-> "CREDIT", parent_account_id |-> NoParent]}

WideRefs == {a.id : a \in WideAccounts}

\* Two lines of one cent on one side against one line of two cents on the
\* other, on three different accounts.
SplitLists ==
    {<<import_line(a, d, 1 - d), import_line(b, d, 1 - d),
       import_line(c, 2 * (1 - d), 2 * d)>> :
        <<a, b, c, d>> \in {q \in WideRefs \X WideRefs \X WideRefs \X {0, 1} :
                               q[1] # q[2] /\ q[1] # q[3] /\ q[2] # q[3]}}

InitBulk == InitWith(WideAccounts)

CreateSplitTransaction == CreateTransactionOver(SplitLists)

BulkReassign == BulkUpdateOver(WideRefs)

NextBulk ==
    \/ CreateSplitTransaction
    \/ BulkReassign

SpecBulk == InitBulk /\ [][NextBulk]_vars

----------------------------------------------------------------------------
\* Two requests in flight against the document store. A handler is cut where
\* it reads and where it writes; each step is one call of the store.

InitConc == Init /\ USE_COSMOS_DB

\* Requests that pass every check: one entry and the same entry reversed.
ConcLineLists ==
    {<<import_line(1, 1, 0), import_line(2, 0, 1)>>,
     <<import_line(2, 1, 0), import_line(1, 0, 1)>>}

CreateEntry == CreateTransactionOver(ConcLineLists)

\* update_transaction up to its write: get_transaction and the line checks.
UpdateRead(w) ==
    \E business_id \in Businesses, transaction_id \in TxnIds, lines \in ConcLineLists :
        /\ sessions[w].pc = "idle"
        /\ cosmos_update_checks(chart_of_accounts, transactions, business_id,
                                transaction_id, lines) = "ok"
        /\ sessions' = [sessions EXCEPT ![w] =
               [pc |-> "update",
                snapshot |-> CHOOSE t \in get_transaction(transactions, transaction_id,
                                                         business_id) : TRUE,
                lines |-> lines]]
        /\ UNCHANGED <<USE_COSMOS_DB, account_sequence, chart_of_accounts, transactions, sqlite_sequence,
                       uuid_seq, last>>

\* update_transaction from update_item on.
UpdateWrite(w) ==
    /\ sessions[w].pc = "update"
    /\ LET doc == [sessions[w].snapshot EXCEPT
                      !.amount = SumDebits(sessions[w].lines),
                      !.lines = sessions[w].lines]
           written == update_item(transactions, doc)
       IN  /\ transactions' = written.transactions
           /\ last' = [op |-> "update_transaction",
                       status |-> IF written.ok THEN "ok" ELSE "StorageError"]
    /\ sessions' = [sessions EXCEPT ![w] = Idle]
    /\ UNCHANGED <<USE_COSMOS_DB, account_sequence, chart_of_accounts, sqlite_sequence, uuid_seq>>

ImportStages == <<"bank", "expense", "revenue", "rows">>

\* The bank account's code, or the first of its suffixed forms that the
\* accounts just read do not hold; the suffix starts at 2.
unique_code(accts, business_id, base) ==
    LET candidates == <<base, base \o "-2", base \o "-3">>
        free == {i \in 1..Len(candidates) : by_code(accts, business_id, candidates[i]) = {}}
    IN  candidates[CHOOSE i \in free : \A j \in free : i <= j]

StageAccount ==
    [bank |-> [account_code |-> "1000", category |-> "ASSET", normal_balance |-> "DEBIT"],
     expense |-> [account_code |-> "UNCATEGORIZED_EXPENSE", category |-> "EXPENSE",
                  normal_balance |-> "DEBIT"],
     revenue |-> [account_code |-> "UNCATEGORIZED_REVENUE", category |-> "REVENUE",
                  normal_balance |-> "CREDIT"]]

\* import_transactions_csv up to the bank account lookup.
ImportBegin(w) ==
    \E rows \in ImportRows :
        /\ sessions[w].pc = "idle"
        /\ sessions' = [sessions EXCEPT ![w] =
               [pc |-> "import", business_id |-> 1, stage |-> 1, missed |-> FALSE,
                refs |-> [bank |-> NullRef, expense |-> NullRef, revenue |-> NullRef],
                rows |-> rows]]
        /\ UNCHANGED <<USE_COSMOS_DB, account_sequence, chart_of_accounts, transactions, sqlite_sequence,
                       uuid_seq, last>>

\* The lookup by account_code of the stage's account in get_chart_of_accounts.
ImportLookup(w) ==
    /\ sessions[w].pc = "import"
    /\ sessions[w].stage <= 3
    /\ ~sessions[w].missed
    /\ LET stage == ImportStages[sessions[w].stage]
           found == by_code(chart_of_accounts, sessions[w].business_id,
                            StageAccount[stage].account_code)
       IN  sessions' = [sessions EXCEPT ![w] =
               IF found = {}
               THEN [@ EXCEPT !.missed = TRUE]
               ELSE [@ EXCEPT !.stage = @ + 1,
                              !.refs[stage] = (CHOOSE a \in found : TRUE).id]]
    /\ UNCHANGED <<USE_COSMOS_DB, account_sequence, chart_of_accounts, transactions, sqlite_sequence,
                   uuid_seq, last>>

\* After a miss: the next account id from a fresh read, then create_item
\* under a new uuid.
ImportCreate(w) ==
    /\ sessions[w].pc = "import"
    /\ sessions[w].missed
    /\ LET stage == ImportStages[sessions[w].stage]
           base == StageAccount[stage].account_code
           created == new_account(chart_of_accounts, sessions[w].business_id,
                                  uuid_seq + 1,
                                  IF stage = "bank"
                                  THEN unique_code(chart_of_accounts,
                                                   sessions[w].business_id, base)
                                  ELSE base,
                                  StageAccount[stage].category,
                                  StageAccount[stage].normal_balance)
       IN  /\ chart_of_accounts' = chart_of_accounts \cup {created}
           /\ sessions' = [sessions EXCEPT ![w] =
                  [@ EXCEPT !.stage = @ + 1, !.missed = FALSE,
                            !.refs[stage] = created.doc]]
    /\ uuid_seq' = uuid_seq + 1
    /\ UNCHANGED <<USE_COSMOS_DB, account_sequence, transactions, sqlite_sequence, last>>

\* The row loop and the response.
ImportPost(w) ==
    /\ sessions[w].pc = "import"
    /\ sessions[w].stage = 4
    /\ LET s == sessions[w]
           posted == import_rows(transactions, s.business_id,
                                 cosmos_next_id(transactions, s.business_id), s.rows,
                                 s.refs.bank, s.refs.expense, s.refs.revenue)
       IN  /\ cosmos_next_id(transactions, s.business_id) + posted.imported - 1
                 <= MaxTxns
           /\ transactions' = posted.transactions
    /\ last' = [op |-> "import_transactions_csv", status |-> "ok"]
    /\ sessions' = [sessions EXCEPT ![w] = Idle]
    /\ UNCHANGED <<USE_COSMOS_DB, account_sequence, chart_of_accounts, sqlite_sequence, uuid_seq>>

NextConc ==
    \/ CreateEntry
    \/ DeleteTransaction
    \/ \E w \in Writers : UpdateRead(w)
    \/ \E w \in Writers : UpdateWrite(w)

SpecConc == InitConc /\ [][NextConc]_vars

NextRace ==
    \/ \E w \in Writers : ImportBegin(w)
    \/ \E w \in Writers : ImportLookup(w)
    \/ \E w \in Writers : ImportCreate(w)
    \/ \E w \in Writers : ImportPost(w)

SpecRace == InitConc /\ [][NextRace]_vars

----------------------------------------------------------------------------
\* The chart of accounts: its three handlers and the import that adds accounts

AccountIds == 1..MaxAccountId

AccountCodes == {"", "5000", "1000", "UNCATEGORIZED_EXPENSE"}

AccountTypes == {[category |-> "EXPENSE", normal_balance |-> "DEBIT"]}

ParentInputs == {NoParent, 0} \cup AccountRefs

UpdateData ==
    [account_code : {AbsentCode, "4000", "1000"},
     parent_account_id : ParentInputs \cup {AbsentParent}]

CreateChartOfAccountOver(Parents) ==
    \E business_id \in Businesses, account_code \in AccountCodes,
       account_type \in AccountTypes, parent_account_id \in Parents :
        LET r == create_chart_of_account(USE_COSMOS_DB, chart_of_accounts, uuid_seq,
                                         account_sequence, business_id, account_code,
                                         account_type, parent_account_id)
        IN  /\ r.status = "ok" =>
                   /\ \A a \in r.chart_of_accounts : a.id <= MaxAccountId
                   /\ r.uuid_seq <= MaxUuids
            /\ chart_of_accounts' = r.chart_of_accounts
            /\ uuid_seq' = r.uuid_seq
            /\ account_sequence' = r.account_sequence
            /\ last' = [op |-> "create_chart_of_account", status |-> r.status]
            /\ UNCHANGED <<USE_COSMOS_DB, transactions, sqlite_sequence, sessions>>

UpdateChartOfAccountOver(Data) ==
    \E business_id \in Businesses, account_id \in AccountIds, data \in Data :
        LET r == update_chart_of_account(USE_COSMOS_DB, chart_of_accounts, business_id,
                                         account_id, data)
        IN  /\ chart_of_accounts' = r.chart_of_accounts
            /\ last' = [op |-> "update_chart_of_account", status |-> r.status]
            /\ UNCHANGED <<USE_COSMOS_DB, account_sequence, transactions,
                           sqlite_sequence, uuid_seq, sessions>>

\* The account tree: create with a parent, the update of the parent, delete;
\* at most MaxNewAccounts accounts are ever added.
ReparentData == {d \in UpdateData : d.account_code = AbsentCode}

CreateChildAccount ==
    /\ CreateChartOfAccountOver(ParentInputs)
    /\ uuid_seq' <= MaxNewAccounts
    /\ account_sequence' <= Cardinality(InitialAccounts) + MaxNewAccounts

ReparentChartOfAccount == UpdateChartOfAccountOver(ReparentData)

DeleteAccount == DeleteChartOfAccountOver(AccountIds)

NextAccounts ==
    \/ CreateChildAccount
    \/ ReparentChartOfAccount
    \/ DeleteAccount

SpecAccounts == Init /\ [][NextAccounts]_vars

\* The handlers that give accounts their codes: create, the update of the
\* code, and the import with its placeholder accounts.
RecodeData == {d \in UpdateData : d.parent_account_id = AbsentParent}

RecodeChartOfAccount == UpdateChartOfAccountOver(RecodeData)

\* The import while document ids remain to be drawn.
ImportStatement == ImportTransactionsCsv /\ uuid_seq' <= MaxUuids

CreateChartOfAccount == CreateChartOfAccountOver({NoParent})

NextCodes ==
    \/ CreateChartOfAccount
    \/ RecodeChartOfAccount
    \/ ImportStatement

SpecCodes == Init /\ [][NextCodes]_vars

----------------------------------------------------------------------------
\* Reports. Dates are ISO 'YYYY-MM-DD' strings compared as strings; they are
\* written here as the integers YYYYMMDD, which are ordered the same way.

Year(d) == d \div 10000

Jan1(year) == year * 10000 + 101

Dec31(year) == year * 10000 + 1231

\* abs(balance) >= 0.01, in cents
MinBalance == 1

RECURSIVE line_totals(_, _)
line_totals(lines, account_id) ==
    IF lines = <<>> THEN [debit_total |-> 0, credit_total |-> 0]
    ELSE LET rest == line_totals(Tail(lines), account_id)
             line == Head(lines)
         IN  IF line.chart_of_account_id = account_id
             THEN [debit_total |-> rest.debit_total + line.debit_amount,
                   credit_total |-> rest.credit_total + line.credit_amount]
             ELSE rest

\* account_balances[account_id] over the lines of the given transactions
RECURSIVE account_balances(_, _)
account_balances(txns, account_id) ==
    IF txns = {} THEN [debit_total |-> 0, credit_total |-> 0]
    ELSE LET t == CHOOSE x \in txns : TRUE
             rest == account_balances(txns \ {t}, account_id)
             mine == line_totals(t.lines, account_id)
         IN  [debit_total |-> rest.debit_total + mine.debit_total,
              credit_total |-> rest.credit_total + mine.credit_total]

\* sum(e['balance'] for e in entries)
RECURSIVE total_balance(_)
total_balance(entries) ==
    IF entries = {} THEN 0
    ELSE LET e == CHOOSE x \in entries : TRUE
         IN  e.balance + total_balance(entries \ {e})

\* get_transactions(business_id, start_date, end_date)
cosmos_get_transactions(txns, business_id, start_date, end_date) ==
    {t \in txns : /\ t.business_id = business_id
                  /\ t.transaction_date >= start_date
                  /\ t.transaction_date <= end_date}

\* get_profit_loss_accounts: the revenue and expense accounts of the business
\* with their balance over the transactions of the range, small balances left out.
get_profit_loss_accounts(accts, txns, business_id, start_date, end_date) ==
    LET in_range == cosmos_get_transactions(txns, business_id, start_date, end_date)
        balance(a) ==
            LET b == account_balances(in_range, a.id)
            IN  IF a.category = "REVENUE" THEN b.credit_total - b.debit_total
                ELSE b.debit_total - b.credit_total
    IN  {[id |-> a.id, account_code |-> a.account_code, category |-> a.category,
          balance |-> balance(a)] :
            a \in {x \in accts : /\ x.business_id = business_id
                                 /\ x.category \in {"REVENUE", "EXPENSE"}
                                 /\ Abs(balance(x)) >= MinBalance}}

ProfitLossFailure ==
    [status |-> "ServerError", revenue |-> {}, expenses |-> {}, total_revenue |-> 0,
     total_expenses |-> 0, net_income |-> 0]

cosmos_get_profit_loss(accts, txns, business_id, start_date, end_date) ==
    LET accounts == get_profit_loss_accounts(accts, txns, business_id, start_date,
                                             end_date)
        revenue == {a \in accounts : a.category = "REVENUE"}
        expenses == accounts \ revenue
    IN  [status |-> "ok", revenue |-> revenue, expenses |-> expenses,
         total_revenue |-> total_balance(revenue),
         total_expenses |-> total_balance(expenses),
         net_income |-> total_balance(revenue) - total_balance(expenses)]

\* The SQLite branch reads business_ids, a name that get_profit_loss never
\* binds: the request ends in a NameError before any query is made.
sqlite_get_profit_loss(accts, txns, business_id, start_date, end_date) ==
    ProfitLossFailure

\* request.args.get(...) of a parameter that was not sent
NoDate == 0

get_profit_loss(cosmos, accts, txns, business_id, start_date, end_date) ==
    IF start_date = NoDate \/ end_date = NoDate
    THEN [ProfitLossFailure EXCEPT !.status = "BadRequest"]
    ELSE IF cosmos
    THEN cosmos_get_profit_loss(accts, txns, business_id, start_date, end_date)
    ELSE sqlite_get_profit_loss(accts, txns, business_id, start_date, end_date)

\* Balance sheet

OpeningBalanceCodes == {"3030", "OB", "OPENING"}

ReportBankAccounts ==
    {[business_id |-> 1, id |-> 1, account_code |-> "1000", opening_balance |-> 10]}

CreditCardAccounts ==
    {[business_id |-> 1, id |-> 1, account_code |-> "2100", current_balance |-> 3]}

LoanAccounts ==
    {[business_id |-> 1, id |-> 1, account_code |-> "2500", current_balance |-> 4]}

normal_balance(account, totals) ==
    IF account.normal_balance = "DEBIT" THEN totals.debit_total - totals.credit_total
    ELSE totals.credit_total - totals.debit_total

has_lines(txns, account_id) ==
    \E t \in txns : \E i \in 1..Len(t.lines) : t.lines[i].chart_of_account_id = account_id

is_opening_balance_account(account) ==
    account.category = "EQUITY" /\ account.account_code \in OpeningBalanceCodes

chart_entry(account, txns) ==
    [account_code |-> account.account_code, kind |-> "chart",
     balance |-> normal_balance(account, account_balances(txns, account.id))]

card_and_loan_entries(business_id) ==
    {[account_code |-> cc.account_code, kind |-> "credit_card",
      balance |-> cc.current_balance] :
        cc \in {x \in CreditCardAccounts : x.business_id = business_id}}
    \cup {[account_code |-> loan.account_code, kind |-> "loan",
           balance |-> loan.current_balance] :
        loan \in {x \in LoanAccounts : x.business_id = business_id}}

\* opening_balance + (debit_total - credit_total) of the chart account that
\* carries the bank account's code, when there is one
bank_entry(accts, txns, business_id, bank) ==
    LET chart == by_code(accts, business_id, bank.account_code)
        posted == IF chart = {} THEN 0
                  ELSE LET b == account_balances(txns, (CHOOSE a \in chart : TRUE).id)
                       IN  b.debit_total - b.credit_total
    IN  [account_code |-> bank.account_code, kind |-> "bank",
         balance |-> bank.opening_balance + posted]

NoRetainedEarnings ==
    [present |-> FALSE, prior_years_net_income |-> 0, current_year_net_income |-> 0,
     total |-> 0]

BalanceSheet(status, assets, liabilities, equity, retained_earnings) ==
    [status |-> status, assets |-> assets, liabilities |-> liabilities,
     equity |-> equity, total_assets |-> total_balance(assets),
     total_liabilities |-> total_balance(liabilities),
     total_equity |-> total_balance(equity), retained_earnings |-> retained_earnings]

BalanceSheetFailure == BalanceSheet("ServerError", {}, {}, {}, NoRetainedEarnings)

net_income(accts, txns, business_id, start_date, end_date) ==
    cosmos_get_profit_loss(accts, txns, business_id, start_date, end_date).net_income

earliest_year == 2000

\* for y in range(earliest_year, year_int): prior_years_net_income += year_net_income
RECURSIVE prior_years(_, _, _, _, _)
prior_years(accts, txns, business_id, y, year_int) ==
    IF y >= year_int THEN 0
    ELSE net_income(accts, txns, business_id, Jan1(y), Dec31(y))
         + prior_years(accts, txns, business_id, y + 1, year_int)

cosmos_get_balance_sheet(accts, txns, business_id, as_of_date) ==
    LET all_accounts == {a \in accts : a.business_id = business_id}
        balance_sheet_accounts ==
            {a \in all_accounts : a.category \in {"ASSET", "LIABILITY", "EQUITY"}}
        up_to == {t \in txns : t.business_id = business_id
                               /\ t.transaction_date <= as_of_date}
        \* int(account_id) of a document id raises ValueError
        unreadable == \E t \in up_to : \E i \in 1..Len(t.lines) :
                          t.lines[i].chart_of_account_id < 0
        opening == {a \in balance_sheet_accounts : is_opening_balance_account(a)}
        opening_balance_from_equity ==
            total_balance({chart_entry(a, up_to) : a \in opening})
        listed == {a \in balance_sheet_accounts \ opening : has_lines(up_to, a.id)}
        chart_of(category) == {chart_entry(a, up_to) : a \in {x \in listed :
                                                             x.category = category}}
        existing_asset_ids == {a.id : a \in {x \in listed : x.category = "ASSET"}}
        existing_asset_codes ==
            {a.account_code : a \in {x \in listed : x.category = "ASSET"}}
        represented(bank) ==
            LET chart == by_code(accts, business_id, bank.account_code)
            IN  /\ chart # {}
                /\ \/ (CHOOSE a \in chart : TRUE).id \in existing_asset_ids
                   \/ bank.account_code \in existing_asset_codes
        banks == {bank_entry(accts, up_to, business_id, bank) :
                    bank \in {x \in ReportBankAccounts :
                                /\ x.business_id = business_id
                                /\ ~represented(x)}}
        year_int == Year(as_of_date)
        prior == opening_balance_from_equity
                 + prior_years(accts, txns, business_id, earliest_year, year_int)
        current == net_income(accts, txns, business_id, Jan1(year_int), as_of_date)
        retained == [present |-> TRUE, prior_years_net_income |-> prior,
                     current_year_net_income |-> current, total |-> prior + current]
        retained_entry == [account_code |-> "RE", kind |-> "retained_earnings",
                           balance |-> prior + current]
    IN  IF unreadable THEN BalanceSheetFailure
        ELSE BalanceSheet("ok", chart_of("ASSET") \cup banks,
                          chart_of("LIABILITY") \cup card_and_loan_entries(business_id),
                          chart_of("EQUITY") \cup {retained_entry}, retained)

sqlite_get_balance_sheet(accts, txns, business_id, as_of_date) ==
    LET accounts == {a \in accts : /\ a.business_id = business_id
                                   /\ a.category \in {"ASSET", "LIABILITY", "EQUITY"}}
        up_to == {t \in txns : t.business_id = business_id
                               /\ t.transaction_date <= as_of_date}
        chart_of(category) == {chart_entry(a, up_to) : a \in {x \in accounts :
                                                             x.category = category}}
        banks == {bank_entry(accts, up_to, business_id, bank) :
                    bank \in {x \in ReportBankAccounts : x.business_id = business_id}}
    IN  BalanceSheet("ok", chart_of("ASSET") \cup banks,
                     chart_of("LIABILITY") \cup card_and_loan_entries(business_id),
                     chart_of("EQUITY"), NoRetainedEarnings)

get_balance_sheet(cosmos, accts, txns, business_id, as_of_date) ==
    IF cosmos THEN cosmos_get_balance_sheet(accts, txns, business_id, as_of_date)
    ELSE sqlite_get_balance_sheet(accts, txns, business_id, as_of_date)

----------------------------------------------------------------------------
\* Reports over a ledger of dated entries

MaxLedger == 2

ReportAccounts ==
    InitialAccounts
    \cup {[business_id |-> 1, id |-> 3, doc |-> -103, account_code |-> "1000",
           category |-> "ASSET", normal_balance |-> "DEBIT",
           parent_account_id |-> NoParent],
          [business_id |-> 1, id |-> 4, doc |-> -104, account_code |-> "3030",
           category |-> "EQUITY", normal_balance |-> "CREDIT",
           parent_account_id |-> NoParent],
          [business_id |-> 1, id |-> 5, doc |-> -105, account_code |-> "2100",
           category |-> "LIABILITY", normal_balance |-> "CREDIT",
           parent_account_id |-> NoParent]}

EntryDates == <<19990615, 20230615, 20240115, 20240620>>

\* debit account, credit account, amount: a purchase paid from the bank, a sale
\* paid into the bank, the opening balance of the bank, a purchase by card
EntryKinds == <<[debit |-> 1, credit |-> 3, amount |-> 2],
                [debit |-> 3, credit |-> 2, amount |-> 5],
                [debit |-> 3, credit |-> 4, amount |-> 7],
                [debit |-> 1, credit |-> 5, amount |-> 3]>>

dated_entry(d, k) ==
    [business_id |-> 1, id |-> (d - 1) * Len(EntryKinds) + k,
     transaction_date |-> EntryDates[d], amount |-> EntryKinds[k].amount,
     lines |-> <<[chart_of_account_id |-> EntryKinds[k].debit,
                  debit_amount |-> EntryKinds[k].amount, credit_amount |-> 0],
                 [chart_of_account_id |-> EntryKinds[k].credit,
                  debit_amount |-> 0, credit_amount |-> EntryKinds[k].amount]>>]

DatedEntries == {dated_entry(d, k) : d \in 1..Len(EntryDates), k \in 1..Len(EntryKinds)}

Ledgers == {l \in SUBSET DatedEntries : Cardinality(l) <= MaxLedger}

RangeStarts == {NoDate, Jan1(1999), Jan1(2024), 20240115}

RangeEnds == {NoDate, Dec31(1999), 20240115, Dec31(2024)}

AsOfDates == {Dec31(1999), Dec31(2023), 20240115, Dec31(2024)}

InitReports ==
    /\ USE_COSMOS_DB \in BOOLEAN
    /\ chart_of_accounts = ReportAccounts
    /\ transactions \in Ledgers
    /\ sqlite_sequence = MaxOf({t.id : t \in transactions})
    /\ uuid_seq = 0
    /\ account_sequence = MaxOf({a.id : a \in ReportAccounts})
    /\ sessions = [w \in Writers |-> Idle]
    /\ last = [op |-> "none", status |-> "ok"]

GetProfitLoss ==
    \E business_id \in Businesses, start_date \in RangeStarts, end_date \in RangeEnds :
        LET r == get_profit_loss(USE_COSMOS_DB, chart_of_accounts, transactions,
                                 business_id, start_date, end_date)
        IN  /\ last' = [op |-> "get_profit_loss", status |-> r.status]
            /\ UNCHANGED <<USE_COSMOS_DB, account_sequence, chart_of_accounts,
                           transactions, sqlite_sequence, uuid_seq, sessions>>

GetBalanceSheet ==
    \E business_id \in Businesses, as_of_date \in AsOfDates :
        LET r == get_balance_sheet(USE_COSMOS_DB, chart_of_accounts, transactions,
                                   business_id, as_of_date)
        IN  /\ last' = [op |-> "get_balance_sheet", status |-> r.status]
            /\ UNCHANGED <<USE_COSMOS_DB, account_sequence, chart_of_accounts,
                           transactions, sqlite_sequence, uuid_seq, sessions>>

NextReports ==
    \/ GetProfitLoss
    \/ GetBalanceSheet

SpecReports == InitReports /\ [][NextReports]_vars

----------------------------------------------------------------------------
\* The unique account code of an auto-created bank chart account, one loop
\* iteration per step. f'{base_account_code}-{suffix}' is written
\* <<base_account_code, suffix>> and the base code itself <<base_account_code, 1>>.

SuffixLimit == 100

base_account_code == "BANK-1"

suffixed(suffix) == <<base_account_code, suffix>>

Importer == "w1"

\* The chart of a business whose given codes of the family are taken.
chart_with(taken) ==
    {[business_id |-> 1, id |-> n, doc |-> -(100 + n), account_code |-> suffixed(n),
      category |-> "ASSET", normal_balance |-> "DEBIT",
      parent_account_id |-> NoParent] : n \in taken}

TakenCodes ==
    {1..k : k \in 0..(SuffixLimit + 1)}
    \cup {(1..SuffixLimit) \ {j} : j \in {2, SuffixLimit \div 2, SuffixLimit}}

InitSuffix ==
    /\ USE_COSMOS_DB = TRUE
    /\ chart_of_accounts \in {chart_with(taken) : taken \in TakenCodes}
    /\ transactions = {}
    /\ sqlite_sequence = 0
    /\ uuid_seq = 0
    /\ account_sequence = MaxOf({a.id : a \in chart_of_accounts})
    /\ sessions = [w \in Writers |-> Idle]
    /\ last = [op |-> "none", status |-> "ok"]

\* account_code = base_account_code; suffix = 1; existing_accounts = get_chart_of_accounts(...)
UniqueCodeBegin ==
    /\ sessions[Importer].pc = "idle"
    /\ uuid_seq < MaxNewAccounts
    /\ sessions' = [sessions EXCEPT ![Importer] =
           [pc |-> "unique_code", business_id |-> 1, suffix |-> 1,
            account_code |-> suffixed(1),
            existing_accounts |-> {a \in chart_of_accounts : a.business_id = 1}]]
    /\ UNCHANGED <<USE_COSMOS_DB, account_sequence, chart_of_accounts, transactions,
                   sqlite_sequence, uuid_seq, last>>

\* Variant of the membership test that finds every code free.
code_always_free(session) == FALSE

code_exists(session) ==
    \E acc \in session.existing_accounts : acc.account_code = session.account_code

\* The code is taken: suffix += 1, the next code, and the error past the limit.
UniqueCodeCollide ==
    LET session == sessions[Importer]
    IN  /\ session.pc = "unique_code"
        /\ code_exists(session)
        /\ IF session.suffix + 1 > SuffixLimit
           THEN /\ sessions' = [sessions EXCEPT ![Importer] = Idle]
                /\ last' = [op |-> "import_transactions_csv", status |-> "NoUniqueCode"]
           ELSE /\ sessions' = [sessions EXCEPT ![Importer] =
                       [@ EXCEPT !.suffix = @ + 1,
                                 !.account_code = suffixed(session.suffix + 1)]]
                /\ UNCHANGED last
        /\ UNCHANGED <<USE_COSMOS_DB, account_sequence, chart_of_accounts, transactions,
                       sqlite_sequence, uuid_seq>>

\* The code is free: break, then create_item of the bank chart account.
UniqueCodeCreate ==
    LET session == sessions[Importer]
        next_id == MaxOf({acc.id : acc \in session.existing_accounts}) + 1
        account_doc == [business_id |-> session.business_id, id |-> next_id,
                        doc |-> -(uuid_seq + 1), account_code |-> session.account_code,
                        category |-> "ASSET", normal_balance |-> "DEBIT",
                        parent_account_id |-> NoParent]
    IN  /\ session.pc = "unique_code"
        /\ ~code_exists(session)
        /\ chart_of_accounts' = chart_of_accounts \cup {account_doc}
        /\ uuid_seq' = uuid_seq + 1
        /\ sessions' = [sessions EXCEPT ![Importer] = Idle]
        /\ last' = [op |-> "create_bank_chart_account", status |-> "ok"]
        /\ UNCHANGED <<USE_COSMOS_DB, account_sequence, transactions, sqlite_sequence>>

NextSuffix ==
    \/ UniqueCodeBegin
    \/ UniqueCodeCollide
    \/ UniqueCodeCreate

\* A request that has started is served to its end.
SpecSuffix ==
    /\ InitSuffix
    /\ [][NextSuffix]_vars
    /\ WF_vars(UniqueCodeCollide)
    /\ WF_vars(UniqueCodeCreate)

----------------------------------------------------------------------------
\* The posting date of an imported row written 'a/b/yy' with a 2-digit year.

\* datetime.strptime with %y: 69..99 are 1969..1999 and 0..68 are 2000..2068
StrptimePivot == 69

\* the handler's own rule for a year below 100
YearPivot == 50

DaysInMonth == <<31, 28, 31, 30, 31, 30, 31, 31, 30, 31, 30, 31>>

valid_date(month, day) == month \in 1..12 /\ day \in 1..DaysInMonth[month]

strptime_y(yy) == IF yy >= StrptimePivot THEN 1900 + yy ELSE 2000 + yy

\* if posting_date.year < 1900: if posting_date.year < 100: ...
replace_year(year) ==
    IF year < 1900 /\ year < 100
    THEN IF year < YearPivot THEN 2000 + year ELSE 1900 + year
    ELSE year

PostingDate(ok, year, month, day) == [ok |-> ok, year |-> year, month |-> month, day |-> day]

\* Of date_formats only '%m/%d/%y' and '%d/%m/%y' match a 2-digit year between
\* slashes (%Y takes four digits); the manual parsing runs when both raised.
parse_posting_date(a, b, yy) ==
    IF valid_date(a, b) THEN PostingDate(TRUE, replace_year(strptime_y(yy)), a, b)
    ELSE IF valid_date(b, a) THEN PostingDate(TRUE, replace_year(strptime_y(yy)), b, a)
    ELSE LET year == IF yy < YearPivot THEN 2000 + yy ELSE 1900 + yy
         IN  PostingDate(valid_date(a, b), year, a, b)

TwoDigitYears == 0..99

DateParts == {1, 12, 13, 31}

ParsePostingDate ==
    \E a \in DateParts, b \in DateParts, yy \in TwoDigitYears :
        LET d == parse_posting_date(a, b, yy)
        IN  /\ last' = [op |-> "parse_posting_date",
                        status |-> IF d.ok THEN "ok" ELSE "InvalidDate",
                        yy |-> yy, posting_date |-> d]
            /\ UNCHANGED <<USE_COSMOS_DB, account_sequence, chart_of_accounts,
                           transactions, sqlite_sequence, uuid_seq, sessions>>

SpecDates == InitConc /\ [][ParsePostingDate]_vars

----------------------------------------------------------------------------
\* Header discovery of import_transactions_csv. A column is its name in lower
\* case together with whether the file spells it exactly as the standard name;
\* a line is named by its kind and stands for the columns csv.reader gives.

HeaderWindow == 20

MaxBlankLines == 2

MaxMetadataLines == 20

format1_columns ==
    {"details", "posting date", "description", "amount", "type", "balance",
     "check or slip #"}

format2_columns == {"posting date", "description", "amount", "balance"}

format3_columns == {"date", "description", "credit", "debit", "balance"}

column_aliases ==
    [c \in {"date", "running bal.", "running balance", "running bal"} |->
        IF c = "date" THEN "posting date" ELSE "balance"]

spelled(names, exact) == {[lower |-> n, exact |-> exact] : n \in names}

LineColumns ==
    [blank |-> {},
     metadata |-> spelled({"account number", "1234"}, TRUE),
     row |-> spelled({"01/02/24", "coffee", "-3.50", "96.50"}, TRUE),
     format1 |-> spelled(format1_columns, TRUE),
     format2 |-> spelled(format2_columns, TRUE),
     format2_aliases |-> spelled({"date", "description", "amount", "running bal."}, TRUE),
     format2_lower |-> spelled(format2_columns, FALSE),
     format3 |-> spelled(format3_columns, TRUE)]

HeaderLines == {"format1", "format2", "format2_aliases", "format2_lower", "format3"}

\* column_aliases[col], looked up exactly and then case-insensitively
normalized(col) ==
    IF col.lower \in DOMAIN column_aliases
    THEN [lower |-> column_aliases[col.lower], exact |-> TRUE]
    ELSE col

lowered(row) == {col.lower : col \in row}

is_header(row) ==
    \/ format1_columns \subseteq lowered(row)
    \/ format2_columns \subseteq lowered({normalized(col) : col \in row})
    \/ format3_columns \subseteq lowered(row)

\* for idx, line in enumerate(lines[:20]): the index of the header row, 0 for None
RECURSIVE header_row_idx(_, _)
header_row_idx(lines, idx) ==
    IF idx > Len(lines) \/ idx > HeaderWindow THEN 0
    ELSE IF lines[idx] = "blank" THEN header_row_idx(lines, idx + 1)
    ELSE IF is_header(LineColumns[lines[idx]]) THEN idx
    ELSE header_row_idx(lines, idx + 1)

\* all(col in csv_reader.fieldnames for col in formatN_columns): the names are
\* compared as spelled
csv_format(header) ==
    LET fieldnames == {normalized(col) : col \in LineColumns[header]}
        names == {col.lower : col \in {c \in fieldnames : c.exact}}
    IN  IF format1_columns \subseteq names THEN "format1"
        ELSE IF format2_columns \subseteq names THEN "format2"
        ELSE IF format3_columns \subseteq names THEN "format3"
        ELSE IF {"posting date", "description", "credit", "debit", "balance"}
                    \subseteq names
        THEN "format3"
        ELSE "none"

discover_header(lines) ==
    LET idx == header_row_idx(lines, 1)
    IN  IF idx = 0 THEN [status |-> "UnrecognizedFormat", csv_format |-> "none"]
        ELSE IF csv_format(lines[idx]) = "none"
        THEN [status |-> "UnrecognizedFormat", csv_format |-> "none"]
        ELSE [status |-> "ok", csv_format |-> csv_format(lines[idx])]

\* A statement: blank lines, metadata lines, then a header or none, then a row.
statement(blank, metadata, header) ==
    [i \in 1..blank |-> "blank"] \o [i \in 1..metadata |-> "metadata"]
    \o (IF header = "none" THEN <<>> ELSE <<header>>) \o <<"row">>

DiscoverHeader ==
    \E blank \in 0..MaxBlankLines, metadata \in 0..MaxMetadataLines,
       header \in HeaderLines \cup {"none"} :
        LET lines == statement(blank, metadata, header)
            r == discover_header(lines)
        IN  /\ last' = [op |-> "discover_header", status |-> r.status,
                        csv_format |-> r.csv_format, lines |-> lines]
            /\ UNCHANGED <<USE_COSMOS_DB, account_sequence, chart_of_accounts,
                           transactions, sqlite_sequence, uuid_seq, sessions>>

SpecHeader == Init /\ [][DiscoverHeader]_vars

----------------------------------------------------------------------------
\* Identifier allocation with two requests in flight against the document
\* store: a handler is cut between its read of the highest id and create_item.

NewAccountCodes == {"6000", "6100"}

\* create_chart_of_account up to next_id = max(account ids of the business) + 1
CreateAccountRead(w) ==
    \E account_code \in NewAccountCodes :
        /\ sessions[w].pc = "idle"
        /\ uuid_seq < MaxUuids
        /\ IF by_code(chart_of_accounts, 1, account_code) # {}
           THEN /\ last' = [op |-> "create_chart_of_account", status |-> "DuplicateCode"]
                /\ UNCHANGED sessions
           ELSE /\ sessions' = [sessions EXCEPT ![w] =
                       [pc |-> "create_account", business_id |-> 1,
                        account_code |-> account_code,
                        next_id |-> next_account_id(chart_of_accounts, 1)]]
                /\ UNCHANGED last
        /\ UNCHANGED <<USE_COSMOS_DB, account_sequence, chart_of_accounts, transactions,
                       sqlite_sequence, uuid_seq>>

\* create_item of the account document under a fresh uuid
CreateAccountWrite(w) ==
    LET session == sessions[w]
        account_doc == [business_id |-> session.business_id, id |-> session.next_id,
                        doc |-> -(uuid_seq + 1), account_code |-> session.account_code,
                        category |-> "EXPENSE", normal_balance |-> "DEBIT",
                        parent_account_id |-> NoParent]
    IN  /\ session.pc = "create_account"
        /\ chart_of_accounts' = chart_of_accounts \cup {account_doc}
        /\ uuid_seq' = uuid_seq + 1
        /\ sessions' = [sessions EXCEPT ![w] = Idle]
        /\ last' = [op |-> "create_chart_of_account", status |-> "ok"]
        /\ UNCHANGED <<USE_COSMOS_DB, account_sequence, transactions, sqlite_sequence>>

\* create_transaction up to next_id = MAX(c.transaction_id) + 1
CreateTransactionRead(w) ==
    \E lines \in ConcLineLists :
        /\ sessions[w].pc = "idle"
        /\ cosmos_next_id(transactions, 1) <= MaxTxns
        /\ sessions' = [sessions EXCEPT ![w] =
               [pc |-> "create_transaction", business_id |-> 1, lines |-> lines,
                next_id |-> cosmos_next_id(transactions, 1)]]
        /\ UNCHANGED <<USE_COSMOS_DB, account_sequence, chart_of_accounts, transactions,
                       sqlite_sequence, uuid_seq, last>>

\* create_item of the document 'transaction-{next_id}': the store refuses a
\* second document of that id in the partition of the business.
CreateTransactionWrite(w) ==
    LET session == sessions[w]
        transaction_doc == [business_id |-> session.business_id, id |-> session.next_id,
                            amount |-> SumDebits(session.lines), lines |-> session.lines]
        exists == get_transaction(transactions, session.next_id, session.business_id) # {}
    IN  /\ session.pc = "create_transaction"
        /\ transactions' = IF exists THEN transactions
                           ELSE transactions \cup {transaction_doc}
        /\ sessions' = [sessions EXCEPT ![w] = Idle]
        /\ last' = [op |-> "create_transaction",
                    status |-> IF exists THEN "StorageError" ELSE "ok"]
        /\ UNCHANGED <<USE_COSMOS_DB, account_sequence, chart_of_accounts,
                       sqlite_sequence, uuid_seq>>

NextAlloc ==
    \/ \E w \in Writers : CreateAccountRead(w)
    \/ \E w \in Writers : CreateAccountWrite(w)
    \/ \E w \in Writers : CreateTransactionRead(w)
    \/ \E w \in Writers : CreateTransactionWrite(w)

SpecAlloc == InitConc /\ [][NextAlloc]_vars

----------------------------------------------------------------------------
\* Combined profit and loss over the businesses of the caller. The nested
\* report is written flat: one record per account type and one per node, a node
\* being named by its account type and the account names from the root to it.
\* Businesses have distinct names; a business entry is keyed by its business id.

category_balance(category, totals) ==
    IF category = "REVENUE" THEN totals.credit_total - totals.debit_total
    ELSE totals.debit_total - totals.credit_total

acc_dict(a, balance) ==
    [account_id |-> a.id, account_name |-> a.account_name,
     parent_account_id |-> a.parent_account_id, business_id |-> a.business_id,
     category |-> a.category, account_type_id |-> a.account_type_id,
     balance |-> balance]

\* Path of account names from the root to the account, through account_map
RECURSIVE get_account_path(_, _, _)
get_account_path(account_map, account_id, visited) ==
    IF account_id \in visited \/ ~\E e \in account_map : e.account_id = account_id
    THEN <<>>
    ELSE LET account == CHOOSE e \in account_map : e.account_id = account_id
             parent_path ==
                 IF truthy(account.parent_account_id)
                 THEN get_account_path(account_map, account.parent_account_id,
                                       visited \cup {account_id})
                 ELSE <<>>
         IN  Append(parent_path, account.account_name)

\* The accounts the hierarchy loop places, each with its path
placed_accounts(account_map, with_balance) ==
    {[account_id |-> e.account_id, business_id |-> e.business_id,
      category |-> e.category, account_type_id |-> e.account_type_id,
      balance |-> e.balance, path |-> get_account_path(account_map, e.account_id, {})] :
        e \in {x \in with_balance : get_account_path(account_map, x.account_id, {}) # <<>>}}

under_type(placed, category, account_type_id) ==
    {x \in placed : x.category = category /\ x.account_type_id = account_type_id}

is_prefix(path, full) == Len(path) <= Len(full) /\ SubSeq(full, 1, Len(path)) = path

\* current_node['total'] += balance, for the accounts whose path ends at the node
own_total(of_type, path) == total_balance({x \in of_type : x.path = path})

child_paths(of_type, path) ==
    {SubSeq(x.path, 1, Len(path) + 1) :
        x \in {y \in of_type : Len(y.path) > Len(path) /\ is_prefix(path, y.path)}}

\* build_hierarchy_output of the SQLite branch:
\* total = own balance (from businesses) + children totals
RECURSIVE subtotal(_, _)
RECURSIVE children_total(_, _)
subtotal(of_type, path) ==
    own_total(of_type, path) + children_total(of_type, child_paths(of_type, path))

children_total(of_type, paths) ==
    IF paths = {} THEN 0
    ELSE LET path == CHOOSE x \in paths : TRUE
         IN  subtotal(of_type, path) + children_total(of_type, paths \ {path})

businesses_of(of_type, path) ==
    {[business_id |-> b,
      accounts |-> {x.account_id : x \in {y \in of_type : y.path = path /\ y.business_id = b}},
      total |-> total_balance({y \in of_type : y.path = path /\ y.business_id = b})] :
        b \in {x.business_id : x \in {y \in of_type : y.path = path}}}

node_paths(of_type) ==
    UNION {{SubSeq(x.path, 1, i) : i \in 1..Len(x.path)} : x \in of_type}

\* The nodes of the hierarchy; bottom_up tells whether a node's total takes in
\* the totals of its children (SQLite) or is the one accumulated while the
\* hierarchy was built (Cosmos).
hierarchy_nodes(placed, bottom_up) ==
    UNION {{[category |-> k[1], account_type_id |-> k[2], path |-> path,
             businesses |-> businesses_of(under_type(placed, k[1], k[2]), path),
             total |-> IF bottom_up THEN subtotal(under_type(placed, k[1], k[2]), path)
                       ELSE own_total(under_type(placed, k[1], k[2]), path)] :
                path \in node_paths(under_type(placed, k[1], k[2]))} :
           k \in {<<x.category, x.account_type_id>> : x \in placed}}

\* account_type_node['total'] += balance
account_type_nodes(placed, category) ==
    {[account_type_id |-> t,
      total |-> total_balance(under_type(placed, category, t))] :
        t \in {x.account_type_id : x \in {y \in placed : y.category = category}}}

RECURSIVE sum_of_totals(_)
sum_of_totals(nodes) ==
    IF nodes = {} THEN 0
    ELSE LET node == CHOOSE x \in nodes : TRUE
         IN  node.total + sum_of_totals(nodes \ {node})

EmptyCombinedReport ==
    [status |-> "ok", revenue |-> {}, expenses |-> {}, nodes |-> {},
     total_revenue |-> 0, total_expenses |-> 0, net_income |-> 0]

\* Cosmos branch: the businesses of business_ids, their revenue and expense
\* accounts and their transactions of the range. account_map is keyed by
\* account_id alone, businesses taken in ascending order: of two accounts of
\* the same id the one of the later business stays.
cosmos_get_combined_profit_loss(accts, txns, business_ids, start_date, end_date) ==
    LET businesses == Businesses \cap business_ids
        all_accounts == {a \in accts : /\ a.business_id \in businesses
                                       /\ a.category \in {"REVENUE", "EXPENSE"}}
        balance(a) ==
            category_balance(a.category,
                account_balances(cosmos_get_transactions(txns, a.business_id, start_date,
                                                         end_date), a.id))
        account_map == {acc_dict(a, balance(a)) :
                           a \in {x \in all_accounts :
                                     ~\E y \in all_accounts : /\ y.id = x.id
                                                              /\ y.business_id > x.business_id}}
        placed == placed_accounts(account_map,
                                  {e \in account_map : Abs(e.balance) >= MinBalance})
        revenue == account_type_nodes(placed, "REVENUE")
        expenses == account_type_nodes(placed, "EXPENSE")
    IN  IF businesses = {} THEN EmptyCombinedReport
        ELSE [status |-> "ok", revenue |-> revenue, expenses |-> expenses,
              nodes |-> hierarchy_nodes(placed, FALSE),
              total_revenue |-> sum_of_totals(revenue),
              total_expenses |-> sum_of_totals(expenses),
              net_income |-> sum_of_totals(revenue) - sum_of_totals(expenses)]

\* SQLite branch: accounts_data joins chart_of_accounts, transaction_lines and
\* transactions of the range; neither query names a business.
sqlite_get_combined_profit_loss(accts, txns, business_ids, start_date, end_date) ==
    LET revenue_expense == {a \in accts : a.category \in {"REVENUE", "EXPENSE"}}
        balance(a) ==
            category_balance(a.category,
                account_balances(cosmos_get_transactions(txns, a.business_id, start_date,
                                                         end_date), a.id))
        accounts_data == {acc_dict(a, balance(a)) :
                             a \in {x \in revenue_expense : Abs(balance(x)) >= MinBalance}}
        account_map ==
            accounts_data
            \cup {acc_dict(a, 0) :
                     a \in {x \in revenue_expense :
                               ~\E e \in accounts_data : e.account_id = x.id}}
        placed == placed_accounts(account_map, accounts_data)
    IN  [status |-> "ok",
         revenue |-> account_type_nodes(placed, "REVENUE"),
         expenses |-> account_type_nodes(placed, "EXPENSE"),
         nodes |-> hierarchy_nodes(placed, TRUE),
         total_revenue |-> total_balance({e \in accounts_data : e.category = "REVENUE"}),
         total_expenses |-> total_balance({e \in accounts_data : e.category = "EXPENSE"}),
         net_income |-> total_balance({e \in accounts_data : e.category = "REVENUE"})
                        - total_balance({e \in accounts_data : e.category = "EXPENSE"})]

get_combined_profit_loss(cosmos, accts, txns, business_ids, start_date, end_date) ==
    IF business_ids = {} THEN EmptyCombinedReport
    ELSE IF start_date = NoDate \/ end_date = NoDate
    THEN [EmptyCombinedReport EXCEPT !.status = "BadRequest"]
    ELSE IF cosmos
    THEN cosmos_get_combined_profit_loss(accts, txns, business_ids, start_date, end_date)
    ELSE sqlite_get_combined_profit_loss(accts, txns, business_ids, start_date, end_date)

\* Two businesses with a bank account, a sales account and a travel account
\* each; the first keeps airfare under travel. Account ids count per business
\* on Cosmos and over the whole table on SQLite.
combined_account(business_id, id, name, category, type, parent) ==
    [business_id |-> business_id, id |-> id, doc |-> -(100 + 10 * business_id + id),
     account_code |-> name, account_name |-> name, category |-> category,
     account_type_id |-> type,
     normal_balance |-> IF category \in {"ASSET", "EXPENSE"} THEN "DEBIT" ELSE "CREDIT",
     parent_account_id |-> parent]

SecondBusinessOffset(cosmos) == IF cosmos THEN 0 ELSE 4

CombinedAccounts(cosmos) ==
    LET o == SecondBusinessOffset(cosmos)
    IN  {combined_account(1, 1, "Travel", "EXPENSE", "OPERATING_EXPENSE", NoParent),
         combined_account(1, 2, "Airfare", "EXPENSE", "OPERATING_EXPENSE", 1),
         combined_account(1, 3, "Sales", "REVENUE", "SALES", NoParent),
         combined_account(1, 4, "Bank", "ASSET", "BANK_ACCOUNT", NoParent),
         combined_account(2, o + 1, "Travel", "EXPENSE", "OPERATING_EXPENSE", NoParent),
         combined_account(2, o + 2, "Sales", "REVENUE", "SALES", NoParent),
         combined_account(2, o + 3, "Bank", "ASSET", "BANK_ACCOUNT", NoParent)}

CombinedDates == <<20230615, 20240620>>

\* business, debit account, credit account, amount: travel, airfare and a sale
\* of the first business, travel and a sale of the second
CombinedKinds(cosmos) ==
    LET o == SecondBusinessOffset(cosmos)
    IN  <<[business_id |-> 1, debit |-> 1, credit |-> 4, amount |-> 2],
          [business_id |-> 1, debit |-> 2, credit |-> 4, amount |-> 3],
          [business_id |-> 1, debit |-> 4, credit |-> 3, amount |-> 7],
          [business_id |-> 2, debit |-> o + 1, credit |-> o + 3, amount |-> 5],
          [business_id |-> 2, debit |-> o + 3, credit |-> o + 2, amount |-> 11]>>

combined_entry(cosmos, d, k) ==
    LET kind == CombinedKinds(cosmos)[k]
    IN  [business_id |-> kind.business_id, id |-> (d - 1) * Len(CombinedKinds(cosmos)) + k,
         transaction_date |-> CombinedDates[d], amount |-> kind.amount,
         lines |-> <<[chart_of_account_id |-> kind.debit,
                      debit_amount |-> kind.amount, credit_amount |-> 0],
                     [chart_of_account_id |-> kind.credit,
                      debit_amount |-> 0, credit_amount |-> kind.amount]>>]

CombinedLedgers(cosmos) ==
    {l \in SUBSET {combined_entry(cosmos, d, k) :
                      d \in 1..Len(CombinedDates), k \in 1..Len(CombinedKinds(cosmos))} :
        Cardinality(l) <= MaxLedger}

InitCombined ==
    /\ USE_COSMOS_DB \in BOOLEAN
    /\ chart_of_accounts = CombinedAccounts(USE_COSMOS_DB)
    /\ transactions \in CombinedLedgers(USE_COSMOS_DB)
    /\ sqlite_sequence = MaxOf({t.id : t \in transactions})
    /\ uuid_seq = 0
    /\ account_sequence = MaxOf({a.id : a \in chart_of_accounts})
    /\ sessions = [w \in Writers |-> Idle]
    /\ last = [op |-> "none", status |-> "ok"]

CombinedStarts == {NoDate, Jan1(2024)}

CombinedEnds == {NoDate, Dec31(2024)}

GetCombinedProfitLoss ==
    \E business_ids \in SUBSET Businesses, start_date \in CombinedStarts,
       end_date \in CombinedEnds :
        LET r == get_combined_profit_loss(USE_COSMOS_DB, chart_of_accounts, transactions,
                                          business_ids, start_date, end_date)
        IN  /\ last' = [op |-> "get_combined_profit_loss", status |-> r.status,
                        business_ids |-> business_ids, net_income |-> r.net_income]
            /\ UNCHANGED <<USE_COSMOS_DB, account_sequence, chart_of_accounts,
                           transactions, sqlite_sequence, uuid_seq, sessions>>

SpecCombined == InitCombined /\ [][GetCombinedProfitLoss]_vars

----------------------------------------------------------------------------
\* Properties of the ledger

Imbalance(lines) == Abs(SumDebits(lines) - SumCredits(lines))

\* C1: every committed transaction is balanced: the sum of its debit amounts
\* and the sum of its credit amounts differ by at most the tolerance of 0.01.
C1_Balanced ==
    \A t \in transactions : Imbalance(t.lines) <= Tolerance

\* C1 witness: a transaction is stored once an update has replaced its lines.
C1_Witness ==
    /\ last.op = "update_transaction"
    /\ last.status = "ok"
    /\ \E t \in transactions : Len(t.lines) >= MinLines /\ SumDebits(t.lines) > 0

PairwiseDistinctAccounts(lines) ==
    \A i, j \in 1..Len(lines) :
        i # j => lines[i].chart_of_account_id # lines[j].chart_of_account_id

\* C2: no committed transaction has two lines on the same account.
C2_DistinctLineAccounts ==
    \A t \in transactions : PairwiseDistinctAccounts(t.lines)

\* C3: create_transaction with fewer than two lines, or with debits and
\* credits further apart than the tolerance, answers with an error
\* (UnbalancedEntry for the imbalance) and stores nothing.
C3_InvalidCreateRejected ==
    \A business_id \in Businesses, lines \in LineLists, fault \in BOOLEAN :
        LET r == create_transaction(USE_COSMOS_DB, chart_of_accounts, transactions,
                                    sqlite_sequence, business_id, lines, fault)
        IN  /\ Len(lines) < 2 => r.status = "TooFewLines"
            /\ (Len(lines) >= 2 /\ Imbalance(lines) > Tolerance)
                  => r.status = "UnbalancedEntry"
            /\ (Len(lines) < 2 \/ Imbalance(lines) > Tolerance)
                  => /\ r.transactions = transactions
                     /\ r.sqlite_sequence = sqlite_sequence

\* C3 witness: an unbalanced create was just refused while a transaction is stored.
C3_Witness ==
    /\ last.op = "create_transaction"
    /\ last.status = "UnbalancedEntry"
    /\ transactions # {}

\* C4: every line of every committed transaction references an account that
\* exists and belongs to the business of the transaction.
C4_LinesReferenceOwnAccounts ==
    \A t \in transactions : \A i \in 1..Len(t.lines) :
        \E a \in chart_of_accounts :
            /\ a.id = t.lines[i].chart_of_account_id
            /\ a.business_id = t.business_id

\* C5: a create_transaction or update_transaction call that fails leaves the
\* stored transactions, their lines and the id counter exactly as they were.
C5_FailedWriteChangesNothing ==
    [][(/\ last'.op \in {"create_transaction", "update_transaction"}
        /\ last'.status # "ok")
          => /\ transactions' = transactions
             /\ sqlite_sequence' = sqlite_sequence]_vars

\* C5 witness: an update of a stored transaction has just failed in the store.
C5_Witness ==
    /\ last.op = "update_transaction"
    /\ last.status = "StorageError"
    /\ \E t \in transactions : Len(t.lines) >= MinLines

\* C6: after a successful update_transaction a read of the transaction
\* returns exactly the supplied lines, under the same id.
C6_UpdateReadsBack ==
    \A business_id \in Businesses, transaction_id \in TxnIds, lines \in LineLists :
        LET r == update_transaction(USE_COSMOS_DB, chart_of_accounts, transactions,
                                    sqlite_sequence, business_id, transaction_id,
                                    lines, FALSE)
        IN  r.status = "ok" =>
                \E t \in r.transactions :
                    /\ t.id = transaction_id
                    /\ t.business_id = business_id
                    /\ read_lines(USE_COSMOS_DB, chart_of_accounts, t.lines) = lines

\* C7: delete_transaction removes the transaction and its lines as one unit,
\* answers NotFound and removes nothing when the business has no transaction
\* of that id, and never answers ok without having removed it.
C7_DeleteRemovesOrNotFound ==
    \A business_id \in Businesses, transaction_id \in TxnIds, fault \in BOOLEAN :
        LET r == delete_transaction(USE_COSMOS_DB, transactions, sqlite_sequence,
                                    business_id, transaction_id, fault)
            owned == {t \in transactions :
                         t.id = transaction_id /\ t.business_id = business_id}
        IN  /\ owned = {} => r.status = "NotFound"
            /\ r.status = "ok" => (owned # {} /\ r.transactions = transactions \ owned)
            /\ r.status # "ok" => r.transactions = transactions

\* C7 witness: a delete was just answered NotFound although a transaction
\* (of the other business, or of another id) is stored.
C7_Witness ==
    /\ last.op = "delete_transaction"
    /\ last.status = "NotFound"
    /\ transactions # {}

\* C8: every transaction a bulk reassignment has modified is left with its
\* lines on pairwise distinct accounts, so never with two lines on the target.
C8_BulkKeepsLineAccountsDistinct ==
    [][last'.op = "bulk_update_transactions"
          => \A t \in transactions' :
                t \notin transactions => PairwiseDistinctAccounts(t.lines)]_vars

\* C9: an update is written only over the version its writer has read; a
\* writer whose snapshot is stale does not overwrite the other writer's change.
C9_NoLostUpdate ==
    [][\A w \in Writers :
          (/\ sessions[w].pc = "update"
           /\ sessions'[w].pc = "idle"
           /\ last'.status = "ok")
             => sessions[w].snapshot \in transactions]_vars

\* C10: a business never holds two accounts under one account code, however
\* two imports interleave while they create their placeholder accounts.
C10_OnePlaceholderPerCode ==
    \A a, b \in chart_of_accounts :
        (a.business_id = b.business_id /\ a.account_code = b.account_code) => a = b

\* C11: no two accounts of a business carry the same account_code.
C11_CodesUniquePerBusiness ==
    \A a, b \in chart_of_accounts :
        (a.business_id = b.business_id /\ a.account_code = b.account_code)
            => (a.id = b.id /\ a.doc = b.doc)

\* C11: a create or update of an account that would give a business a second
\* account under one code answers DuplicateCode, and a call that answers
\* DuplicateCode leaves the chart as it was.
C11_DuplicateCodeRefused ==
    /\ \A business_id \in Businesses, account_code \in AccountCodes \ {""},
          account_type \in AccountTypes :
           LET r == create_chart_of_account(USE_COSMOS_DB, chart_of_accounts, uuid_seq,
                                            account_sequence, business_id, account_code,
                                            account_type, NoParent)
           IN  /\ by_code(chart_of_accounts, business_id, account_code) # {}
                     => r.status = "DuplicateCode"
               /\ r.status = "DuplicateCode" => r.chart_of_accounts = chart_of_accounts
    /\ \A business_id \in Businesses, account_id \in AccountIds, data \in UpdateData :
           LET r == update_chart_of_account(USE_COSMOS_DB, chart_of_accounts, business_id,
                                            account_id, data)
           IN  /\ (/\ get_chart_of_account(chart_of_accounts, account_id, business_id) # {}
                   /\ data.parent_account_id = AbsentParent
                   /\ data.account_code # AbsentCode
                   /\ code_taken(chart_of_accounts, business_id, account_id,
                                 data.account_code))
                     => r.status = "DuplicateCode"
               /\ r.status = "DuplicateCode" => r.chart_of_accounts = chart_of_accounts

C11_AccountCodes == C11_CodesUniquePerBusiness /\ C11_DuplicateCodeRefused

\* C11 witness: a create was just refused as DuplicateCode after an import
\* has added its placeholder accounts.
C11_Witness ==
    /\ last.op = "create_chart_of_account"
    /\ last.status = "DuplicateCode"
    /\ by_code(chart_of_accounts, 1, "UNCATEGORIZED_REVENUE") # {}

\* C12: every account with a parent_account_id has a parent that is stored,
\* belongs to the same business and is another account.
C12_ParentsResolve ==
    \A a \in chart_of_accounts :
        a.parent_account_id # NoParent =>
            \E p \in chart_of_accounts :
                /\ p.id = a.parent_account_id
                /\ p.business_id = a.business_id
                /\ p # a

\* C13: delete_chart_of_account on an account that another account of the
\* business lists as parent answers HasChildren and leaves every account as it
\* was; it answers ok only for an account without child accounts.
C13_DeleteRefusedWithChildren ==
    \A business_id \in Businesses, account_id \in AccountIds :
        LET r == delete_chart_of_account(USE_COSMOS_DB, chart_of_accounts,
                                         business_id, account_id)
            account == get_chart_of_account(chart_of_accounts, account_id, business_id)
            children == {c \in chart_of_accounts :
                            /\ c.business_id = business_id
                            /\ c.parent_account_id = account_id
                            /\ c \notin account}
        IN  /\ (account # {} /\ children # {})
                  => /\ r.status = "HasChildren"
                     /\ r.chart_of_accounts = chart_of_accounts
            /\ r.status = "ok"
                  => /\ children = {}
                     /\ r.chart_of_accounts = chart_of_accounts \ account

\* C13 witness: a delete was just refused as HasChildren and the parent and
\* its child are both still stored.
C13_Witness ==
    /\ last.op = "delete_chart_of_account"
    /\ last.status = "HasChildren"
    /\ \E p, c \in chart_of_accounts :
           p # c /\ c.business_id = p.business_id /\ c.parent_account_id = p.id

LineSet(lines) == {lines[i] : i \in 1..Len(lines)}

\* C14: a read of a transaction that create_transaction has just accepted
\* returns as many lines as were sent and, as a set, the lines that were sent
\* (account id, debit_amount, credit_amount).
C14_CreateReadsBack ==
    \A business_id \in Businesses, lines \in LineLists :
        LET r == create_transaction(USE_COSMOS_DB, chart_of_accounts, transactions,
                                    sqlite_sequence, business_id, lines, FALSE)
        IN  r.status = "ok" =>
                \A t \in r.transactions \ transactions :
                    LET read == read_lines(USE_COSMOS_DB, chart_of_accounts, t.lines)
                    IN  Len(read) = Len(lines) /\ LineSet(read) = LineSet(lines)

ValidRows(rows) == {i \in 1..Len(rows) : rows[i] # "SKIP"}

SkippedRows(rows) == {i \in 1..Len(rows) : rows[i] = "SKIP"}

AccountIdsOf(accts, business_id, account_code) ==
    {a.id : a \in by_code(accts, business_id, account_code)}

\* The two lines the importer is to post for a row of the given direction,
\* each on the account id of the chart account of that code.
RowLinesAsSpecified(accts, business_id, direction, lines) ==
    LET bank == AccountIdsOf(accts, business_id, StageAccount.bank.account_code)
        expense == AccountIdsOf(accts, business_id, StageAccount.expense.account_code)
        revenue == AccountIdsOf(accts, business_id, StageAccount.revenue.account_code)
    IN  /\ Len(lines) = 2
        /\ lines[1].debit_amount = RowAmount /\ lines[1].credit_amount = 0
        /\ lines[2].debit_amount = 0 /\ lines[2].credit_amount = RowAmount
        /\ IF direction = "DEBIT"
           THEN lines[1].chart_of_account_id \in expense
                /\ lines[2].chart_of_account_id \in bank
           ELSE lines[1].chart_of_account_id \in bank
                /\ lines[2].chart_of_account_id \in revenue

\* C15: for each row it imports the importer commits one transaction of the
\* row's amount with two lines: a DEBIT row debits the expense account and
\* credits the bank chart account, a CREDIT row debits the bank chart account
\* and credits the revenue account, each line carrying the account id of the
\* chart account, whether that account existed or was created by this import.
C15_ImportedLines ==
    \A business_id \in Businesses, rows \in ImportRows :
        LET r == import_transactions_csv(USE_COSMOS_DB, chart_of_accounts, transactions,
                                         uuid_seq, business_id, 1, rows)
            new == r.transactions \ transactions
        IN  r.status = "ok" =>
                /\ Cardinality(new) = Cardinality(ValidRows(rows))
                /\ \A i \in ValidRows(rows) :
                       \E t \in new :
                           /\ t.amount = RowAmount
                           /\ RowLinesAsSpecified(r.chart_of_accounts, business_id,
                                                  rows[i], t.lines)

\* C16: for every file, on either backend, the import answers with imported,
\* skipped and at most ten errors; a failing row adds one to skipped and every
\* valid row, also after a failing one, is committed and counted in imported.
C16_ImportReportsRows ==
    \A rows \in ImportRows :
        LET r == import_transactions_csv(USE_COSMOS_DB, chart_of_accounts, transactions,
                                         uuid_seq, 1, 1, rows)
        IN  /\ r.status = "ok"
            /\ r.errors <= ErrorsShown
            /\ r.skipped = Cardinality(SkippedRows(rows))
            /\ r.imported = Cardinality(ValidRows(rows))
            /\ Cardinality(r.transactions \ transactions) = r.imported

\* C17: the import of a file, run a second time on what the first run has
\* left, answers with the same imported count, both when the placeholder
\* accounts of the first run are kept and when the chart is reset to what it
\* was before the first run.
C17_ImportCountRepeats ==
    \A business_id \in Businesses, rows \in ImportRows :
        LET first == import_transactions_csv(USE_COSMOS_DB, chart_of_accounts,
                                             transactions, uuid_seq, business_id, 1, rows)
            again == import_transactions_csv(USE_COSMOS_DB, first.chart_of_accounts,
                                             first.transactions, first.uuid_seq,
                                             business_id, 1, rows)
            reset == import_transactions_csv(USE_COSMOS_DB, chart_of_accounts,
                                             first.transactions, first.uuid_seq,
                                             business_id, 1, rows)
        IN  /\ again.status = first.status /\ again.imported = first.imported
            /\ reset.status = first.status /\ reset.imported = first.imported

\* C17 witness: an import has run and committed a transaction, and its file
\* run again would commit a transaction again.
C17_Witness ==
    /\ last.op = "import_transactions_csv"
    /\ last.status = "ok"
    /\ transactions # {}
    /\ \E rows \in ImportRows :
           import_transactions_csv(USE_COSMOS_DB, chart_of_accounts, transactions,
                                   uuid_seq, 1, 1, rows).imported > 0

\* The report the specification describes, computed from the stored lines
Postings(txns, business_id, account_id, start_date, end_date) ==
    LET in_range == {t \in txns : /\ t.business_id = business_id
                                  /\ t.transaction_date >= start_date
                                  /\ t.transaction_date <= end_date}
        occurrences ==
            UNION {{<<t, i>> : i \in {j \in 1..Len(t.lines) :
                                        t.lines[j].chart_of_account_id = account_id}} :
                   t \in in_range}
    IN  {[id |-> o[1].id, i |-> o[2], debit |-> o[1].lines[o[2]].debit_amount,
          credit |-> o[1].lines[o[2]].credit_amount] : o \in occurrences}

RECURSIVE Net(_)
Net(postings) ==
    IF postings = {} THEN 0
    ELSE LET p == CHOOSE x \in postings : TRUE
         IN  p.debit - p.credit + Net(postings \ {p})

DebitBalance(txns, business_id, account_id, start_date, end_date) ==
    Net(Postings(txns, business_id, account_id, start_date, end_date))

ExpectedBalance(accts, txns, a, start_date, end_date) ==
    IF a.normal_balance = "DEBIT"
    THEN DebitBalance(txns, a.business_id, a.id, start_date, end_date)
    ELSE 0 - DebitBalance(txns, a.business_id, a.id, start_date, end_date)

ExpectedGroup(accts, txns, business_id, category, start_date, end_date) ==
    {[id |-> a.id, account_code |-> a.account_code, category |-> a.category,
      balance |-> ExpectedBalance(accts, txns, a, start_date, end_date)] :
        a \in {x \in accts :
                 /\ x.business_id = business_id
                 /\ x.category = category
                 /\ Abs(ExpectedBalance(accts, txns, x, start_date, end_date))
                        >= MinBalance}}

ExpectedNetIncome(accts, txns, business_id, start_date, end_date) ==
    total_balance(ExpectedGroup(accts, txns, business_id, "REVENUE", start_date,
                                end_date))
    - total_balance(ExpectedGroup(accts, txns, business_id, "EXPENSE", start_date,
                                  end_date))

ProfitLossAsSpecified(r, business_id, start_date, end_date) ==
    /\ r.status = "ok"
    /\ r.revenue = ExpectedGroup(chart_of_accounts, transactions, business_id,
                                 "REVENUE", start_date, end_date)
    /\ r.expenses = ExpectedGroup(chart_of_accounts, transactions, business_id,
                                  "EXPENSE", start_date, end_date)
    /\ r.total_revenue = total_balance(r.revenue)
    /\ r.total_expenses = total_balance(r.expenses)
    /\ r.net_income = r.total_revenue - r.total_expenses

\* C18: on the backend in use, the profit and loss report of every business and
\* date range lists each REVENUE account with credits minus debits and each
\* EXPENSE account with debits minus credits over the lines of the transactions
\* dated in the range, leaves out balances under a cent, totals them, reports
\* net_income = total_revenue - total_expenses, and equals the other backend's
\* report on the same stored data.
C18_ProfitLossOnBothBackends ==
    \A business_id \in Businesses :
        \A start_date \in RangeStarts \ {NoDate}, end_date \in RangeEnds \ {NoDate} :
            LET r == get_profit_loss(USE_COSMOS_DB, chart_of_accounts, transactions,
                                     business_id, start_date, end_date)
            IN  /\ ProfitLossAsSpecified(r, business_id, start_date, end_date)
                /\ r = get_profit_loss(~USE_COSMOS_DB, chart_of_accounts,
                                       transactions, business_id, start_date, end_date)

OpeningBalance(accts, txns, business_id, as_of_date) ==
    total_balance({[account_code |-> a.account_code,
                    balance |-> ExpectedBalance(accts, txns, a, 0, as_of_date)] :
                      a \in {x \in accts : /\ x.business_id = business_id
                                           /\ is_opening_balance_account(x)}})

\* C19: the balance sheet of every business and date carries retained earnings
\* whose total is prior years plus current year, where prior years is the
\* Opening Balance equity account's balance plus the net income of all
\* transactions dated before January 1 of the year of the date, and current year
\* is the net income from January 1 through the date; no equity entry is the
\* Opening Balance account.
C19_RetainedEarnings ==
    \A business_id \in Businesses, as_of_date \in AsOfDates :
        LET r == get_balance_sheet(USE_COSMOS_DB, chart_of_accounts, transactions,
                                   business_id, as_of_date)
            first_day == Jan1(Year(as_of_date))
        IN  /\ r.status = "ok"
            /\ r.retained_earnings.present
            /\ r.retained_earnings.total =
                   r.retained_earnings.prior_years_net_income
                   + r.retained_earnings.current_year_net_income
            /\ r.retained_earnings.prior_years_net_income =
                   OpeningBalance(chart_of_accounts, transactions, business_id,
                                  as_of_date)
                   + ExpectedNetIncome(chart_of_accounts, transactions, business_id,
                                       0, first_day - 1)
            /\ r.retained_earnings.current_year_net_income =
                   ExpectedNetIncome(chart_of_accounts, transactions, business_id,
                                     first_day, as_of_date)
            /\ \A e \in r.equity : e.account_code \notin OpeningBalanceCodes

PostedTo(accts, txns, business_id, account_code, as_of_date) ==
    LET chart == by_code(accts, business_id, account_code)
    IN  IF chart = {} THEN 0
        ELSE DebitBalance(txns, business_id, (CHOOSE a \in chart : TRUE).id, 0,
                          as_of_date)

Contribution(entries, account_code) ==
    total_balance({e \in entries : e.account_code = account_code})

\* C20: in the balance sheet of every business and date, a bank, credit card or
\* loan account whose code is also the code of a chart account is listed once
\* in its list, and the lines posted to that chart account enter the total once:
\* the bank's share of total_assets is the posted balance with or without the
\* opening balance, and a card's or loan's code has a single liability entry.
C20_SubsidiaryCountedOnce ==
    \A business_id \in Businesses, as_of_date \in AsOfDates :
        LET r == get_balance_sheet(USE_COSMOS_DB, chart_of_accounts, transactions,
                                   business_id, as_of_date)
            posted(code) == PostedTo(chart_of_accounts, transactions, business_id,
                                     code, as_of_date)
            represented(x) ==
                /\ x.business_id = business_id
                /\ by_code(chart_of_accounts, business_id, x.account_code) # {}
        IN  /\ r.status = "ok"
            /\ \A bank \in {x \in ReportBankAccounts : represented(x)} :
                   Contribution(r.assets, bank.account_code)
                       \in {0, posted(bank.account_code),
                            bank.opening_balance + posted(bank.account_code)}
            /\ \A x \in {y \in CreditCardAccounts \cup LoanAccounts : represented(y)} :
                   Cardinality({e \in r.liabilities :
                                   e.account_code = x.account_code}) <= 1

RECURSIVE DebitsUpTo(_, _)
DebitsUpTo(lines, n) ==
    IF n = 0 THEN 0 ELSE lines[n].debit_amount + DebitsUpTo(lines, n - 1)

\* C24: in every reachable state the stored amount of every transaction equals
\* the sum of the debit amounts of the lines stored with it.
C24_AmountIsSumOfDebits ==
    \A t \in transactions : t.amount = DebitsUpTo(t.lines, Len(t.lines))

\* An update has replaced the lines of a stored transaction.
C24_Witness ==
    /\ last.op = "update_transaction" /\ last.status = "ok"
    /\ \E t \in transactions : t.amount > 0 /\ t.amount = DebitsUpTo(t.lines, Len(t.lines))

ParentsOf(accts, S) ==
    {p \in accts : \E a \in S : /\ truthy(a.parent_account_id)
                                 /\ p.id = a.parent_account_id
                                 /\ p.business_id = a.business_id}

RECURSIVE AncestorsWithin(_, _, _)
AncestorsWithin(accts, S, n) ==
    IF n = 0 THEN {}
    ELSE ParentsOf(accts, S) \cup AncestorsWithin(accts, ParentsOf(accts, S), n - 1)

\* C25: in every reachable state no chain of parent_account_id links leads from
\* an account back to itself.
C25_ParentsAcyclic ==
    \A a \in chart_of_accounts :
        a \notin AncestorsWithin(chart_of_accounts, {a}, Cardinality(chart_of_accounts))

\* C23: deleted is terminal. After a successful delete of a transaction of a
\* business, the next call does not commit a transaction of that business
\* under the deleted id: the id is not found again.
C23_DeletedIsTerminal ==
    [][(last.op = "delete_transaction" /\ last.status = "ok")
           => get_transaction(transactions', last.transaction_id, last.business_id) = {}]_vars

\* What a caller can tell of an answer: success or error, and the stored entries.
Outcome(r) == [ok |-> r.status = "ok", transactions |-> r.transactions]

\* C22: from every reachable store, each ledger call gives the same outcome
\* and leaves the same transactions and lines on the relational and on the
\* document backend; creating an account gives the same outcome and the same
\* account codes on both.
C22_BackendsAgree ==
    /\ \A business_id \in Businesses, lines \in LineLists :
           Outcome(create_transaction(TRUE, chart_of_accounts, transactions,
                                      sqlite_sequence, business_id, lines, FALSE))
           = Outcome(create_transaction(FALSE, chart_of_accounts, transactions,
                                        sqlite_sequence, business_id, lines, FALSE))
    /\ \A business_id \in Businesses, transaction_id \in TxnIds, lines \in LineLists :
           Outcome(update_transaction(TRUE, chart_of_accounts, transactions,
                                      sqlite_sequence, business_id, transaction_id,
                                      lines, FALSE))
           = Outcome(update_transaction(FALSE, chart_of_accounts, transactions,
                                        sqlite_sequence, business_id, transaction_id,
                                        lines, FALSE))
    /\ \A business_id \in Businesses, transaction_id \in TxnIds :
           Outcome(delete_transaction(TRUE, transactions, sqlite_sequence,
                                      business_id, transaction_id, FALSE))
           = Outcome(delete_transaction(FALSE, transactions, sqlite_sequence,
                                        business_id, transaction_id, FALSE))
    /\ \A business_id \in Businesses, transaction_ids \in SUBSET (1..(MaxTxns + 1)),
          chart_of_account_id \in LineRefs, line_filter \in LineFilters :
           Outcome(bulk_update_transactions(TRUE, chart_of_accounts, transactions,
                                            business_id, transaction_ids,
                                            chart_of_account_id, line_filter))
           = Outcome(bulk_update_transactions(FALSE, chart_of_accounts, transactions,
                                              business_id, transaction_ids,
                                              chart_of_account_id, line_filter))
    /\ \A business_id \in Businesses, account_code \in AccountCodes,
          account_type \in AccountTypes, parent_account_id \in ParentInputs :
           LET c == create_chart_of_account(TRUE, chart_of_accounts, uuid_seq,
                                            account_sequence, business_id,
                                            account_code, account_type,
                                            parent_account_id)
               q == create_chart_of_account(FALSE, chart_of_accounts, uuid_seq,
                                            account_sequence, business_id,
                                            account_code, account_type,
                                            parent_account_id)
           IN  /\ (c.status = "ok") = (q.status = "ok")
               /\ {<<a.business_id, a.account_code>> : a \in c.chart_of_accounts}
                  = {<<a.business_id, a.account_code>> : a \in q.chart_of_accounts}

Searching == sessions[Importer].pc = "unique_code"

Taken(n) == \E a \in chart_of_accounts : a.business_id = 1 /\ a.account_code = suffixed(n)

\* The codes are tried in order: every code before the current one is taken.
TriedInOrder ==
    Searching =>
        /\ sessions[Importer].suffix \in 1..SuffixLimit
        /\ sessions[Importer].account_code = suffixed(sessions[Importer].suffix)
        /\ \A n \in 1..(sessions[Importer].suffix - 1) : Taken(n)

\* The end of the search: one account under the first free code, or the error
\* with every code up to the limit taken and no account created.
SearchEnds ==
    (Searching /\ ~Searching') =>
        \/ /\ last'.status = "ok"
           /\ \E n \in 1..SuffixLimit :
                  /\ ~Taken(n)
                  /\ \A k \in 1..(n - 1) : Taken(k)
                  /\ \E a \in chart_of_accounts' :
                         /\ a.account_code = suffixed(n)
                         /\ chart_of_accounts' = chart_of_accounts \cup {a}
           /\ Cardinality(chart_of_accounts') = Cardinality(chart_of_accounts) + 1
        \/ /\ last'.status = "NoUniqueCode"
           /\ \A n \in 1..SuffixLimit : Taken(n)
           /\ chart_of_accounts' = chart_of_accounts

\* C28: the search for the bank chart account's code always ends; it tries the
\* base code and then the suffixes 2, 3, ... in order, and ends either with the
\* account created under the first free code or, when every code up to suffix
\* 100 is taken, with an error and no account created.
C28_UniqueCodeTerminates ==
    /\ Searching ~> ~Searching
    /\ []TriedInOrder
    /\ [][SearchEnds]_vars

\* Every code up to the limit was taken and the import ended with the error.
C28_Witness ==
    /\ last.status = "NoUniqueCode"
    /\ \A n \in 1..SuffixLimit : Taken(n)
    /\ ~Searching

\* C27: a statement date with the 2-digit year yy is imported with the year
\* 2000 + yy when yy < 50 and with the year 1900 + yy when yy >= 50.
C27_TwoDigitYear ==
    (last.op = "parse_posting_date" /\ last.status = "ok") =>
        last.posting_date.year = IF last.yy < 50 THEN 2000 + last.yy ELSE 1900 + last.yy

NonEmpty(lines) == SelectSeq(lines, LAMBDA l : l # "blank")

\* The first header among the first 20 non-empty lines, "none" without one.
ExpectedHeader(lines) ==
    LET seen == SubSeq(NonEmpty(lines), 1,
                       IF Len(NonEmpty(lines)) < 20 THEN Len(NonEmpty(lines)) ELSE 20)
        headers == {i \in 1..Len(seen) : seen[i] \in HeaderLines}
    IN  IF headers = {} THEN "none"
        ELSE seen[CHOOSE i \in headers : \A j \in headers : i <= j]

\* C26: a statement is classified and processed exactly when one of its first
\* 20 non-empty lines carries, in any letter case and after alias mapping, every
\* column of a known schema; the format is that of the first such line, and
\* only a statement without such a line fails with UnrecognizedFormat.
C26_HeaderDiscovery ==
    last.op = "discover_header" =>
        LET header == ExpectedHeader(last.lines)
        IN  IF header = "none" THEN last.status = "UnrecognizedFormat"
            ELSE /\ last.status = "ok"
                 /\ last.csv_format = CASE header = "format1" -> "format1"
                                        [] header = "format3" -> "format3"
                                        [] OTHER -> "format2"

TransactionIdsUnique ==
    \A t, u \in transactions : (t.business_id = u.business_id /\ t.id = u.id) => t = u

AccountIdsUnique ==
    \A a, b \in chart_of_accounts : (a.business_id = b.business_id /\ a.id = b.id) => a = b

\* C29: with two create calls of a business interleaved between the read of
\* the highest id and the write, no two stored transactions of the business
\* have the same transaction id and no two stored accounts have the same
\* account id.
C29_IdsUniqueUnderConcurrency == TransactionIdsUnique /\ AccountIdsUnique

InScope(accts, txns, business_ids) ==
    [chart_of_accounts |-> {a \in accts : a.business_id \in business_ids},
     transactions |-> {t \in txns : t.business_id \in business_ids}]

ChildNodes(r, n) ==
    {c \in r.nodes : /\ c.category = n.category
                     /\ c.account_type_id = n.account_type_id
                     /\ Len(c.path) = Len(n.path) + 1
                     /\ is_prefix(n.path, c.path)}

NodeTotalsBottomUp(r) ==
    \A n \in r.nodes :
        n.total = sum_of_totals(n.businesses) + sum_of_totals(ChildNodes(r, n))

TypeTotalsCoverAccounts(r) ==
    \A category \in {"REVENUE", "EXPENSE"} :
        \A t \in (IF category = "REVENUE" THEN r.revenue ELSE r.expenses) :
            t.total = sum_of_totals(
                UNION {n.businesses :
                          n \in {m \in r.nodes : /\ m.category = category
                                                 /\ m.account_type_id = t.account_type_id}})

SingleBusinessTotal(category, business_ids, start_date, end_date) ==
    LET one(b) == total_balance(ExpectedGroup(chart_of_accounts, transactions, b,
                                              category, start_date, end_date))
    IN  total_balance({[business_id |-> b, balance |-> one(b)] : b \in business_ids})

\* C21: in the combined profit and loss of every set of businesses and range,
\* on the backend in use, every node's total is the sum of its own business
\* totals and the totals of its child nodes, every account-type total is the sum
\* of the balances of the accounts placed under it, total_revenue and
\* total_expenses are the sums of the account-type totals, and both equal the
\* sums of the single-business totals of the given businesses.
C21_CombinedTotalsBottomUp ==
    \A business_ids \in SUBSET Businesses :
        LET r == get_combined_profit_loss(USE_COSMOS_DB, chart_of_accounts, transactions,
                                          business_ids, Jan1(2024), Dec31(2024))
        IN  /\ r.status = "ok"
            /\ NodeTotalsBottomUp(r)
            /\ TypeTotalsCoverAccounts(r)
            /\ r.total_revenue = sum_of_totals(r.revenue)
            /\ r.total_expenses = sum_of_totals(r.expenses)
            /\ r.total_revenue = SingleBusinessTotal("REVENUE", business_ids,
                                                     Jan1(2024), Dec31(2024))
            /\ r.total_expenses = SingleBusinessTotal("EXPENSE", business_ids,
                                                      Jan1(2024), Dec31(2024))

\* C30: on the backend in use, the combined profit and loss of every set of
\* businesses is the report of the same request on the store without the
\* accounts and transactions of the other businesses.
C30_CombinedReportInScope ==
    \A business_ids \in SUBSET Businesses :
        LET scope == InScope(chart_of_accounts, transactions, business_ids)
        IN  get_combined_profit_loss(USE_COSMOS_DB, chart_of_accounts, transactions,
                                     business_ids, Jan1(2024), Dec31(2024))
            = get_combined_profit_loss(USE_COSMOS_DB, scope.chart_of_accounts,
                                       scope.transactions, business_ids,
                                       Jan1(2024), Dec31(2024))

====
